---------------------------- MODULE Spec2Model ----------------------------
(***************************************************************************)
(* Model of the blog-post publishing backend: the fan-out orchestrator     *)
(* services.PostEverywhere with its four publishers, and the HTTP          *)
(* handlers of api/routes.go that persist blog posts and call it.          *)
(*                                                                         *)
(* Strings that the code inspects character by character (platform names,  *)
(* the "platforms" query parameter) are sequences of one-character         *)
(* strings.  Error texts are sequences of text fragments, concatenated     *)
(* the way fmt.Sprintf / strings.Join concatenate them.                    *)
(***************************************************************************)
EXTENDS Integers, Sequences, FiniteSets, TLC

(***************************************************************************)
(* Bounds of the model.                                                    *)
(***************************************************************************)
\* longest platform selection handed directly to PostEverywhere
MaxSelection == 2
\* number of distinct blog-post ids (rows the blog_posts table can hold)
MaxPosts == 1
\* number of distinct project ids (rows the projects table can hold)
MaxProjects == 1
\* number of connections the server serves at a time while main shuts down
MaxConnections == 2
\* length of the over-long title, and of the tail of the over-long texts
LongTitleLength == 300
LongTextLength == 320
\* length of the tail of the texts longer than the 2000 the long form keeps
LongContentLength == 900

(***************************************************************************)
(* Strings.                                                                *)
(***************************************************************************)
UpperCase == <<"A","B","C","D","E","F","G","H","I","J","K","L","M",
               "N","O","P","Q","R","S","T","U","V","W","X","Y","Z">>
LowerCase == <<"a","b","c","d","e","f","g","h","i","j","k","l","m",
               "n","o","p","q","r","s","t","u","v","w","x","y","z">>

\* unicode.SimpleFold restricted to the ASCII letters: the canonical
\* (lower-case) representative of a character's fold orbit
FoldChar(c) ==
    IF \E i \in 1..26 : UpperCase[i] = c
    THEN LowerCase[CHOOSE i \in 1..26 : UpperCase[i] = c]
    ELSE c

\* strings.EqualFold(s, t)
EqualFold(s, t) ==
    /\ Len(s) = Len(t)
    /\ \A i \in 1..Len(s) : FoldChar(s[i]) = FoldChar(t[i])

WhiteSpace == {" ", "\t", "\n", "\r"}

RECURSIVE TrimLeft(_)
TrimLeft(s) ==
    IF s # <<>> /\ Head(s) \in WhiteSpace THEN TrimLeft(Tail(s)) ELSE s

RECURSIVE TrimRight(_)
TrimRight(s) ==
    IF s # <<>> /\ s[Len(s)] \in WhiteSpace
    THEN TrimRight(SubSeq(s, 1, Len(s) - 1))
    ELSE s

\* strings.TrimSpace(s)
TrimSpace(s) == TrimRight(TrimLeft(s))

\* strings.Split(s, sep) for a one-character separator: n separators give
\* n + 1 pieces, empty pieces included
RECURSIVE Split(_, _)
Split(s, sep) ==
    IF \A i \in 1..Len(s) : s[i] # sep
    THEN <<s>>
    ELSE LET k == CHOOSE i \in 1..Len(s) :
                      s[i] = sep /\ \A j \in 1..(i - 1) : s[j] # sep
         IN  <<SubSeq(s, 1, k - 1)>> \o Split(SubSeq(s, k + 1, Len(s)), sep)

\* strings.Join(parts, sep) on texts made of fragments
RECURSIVE Join(_, _)
Join(parts, sep) ==
    IF parts = <<>> THEN <<>>
    ELSE IF Len(parts) = 1 THEN parts[1]
    ELSE parts[1] \o <<sep>> \o Join(Tail(parts), sep)

(***************************************************************************)
(* Texts the composers build: sequences of one-character strings, indexed  *)
(* from 0 as Go indexes them.                                              *)
(***************************************************************************)
Digits == {"0","1","2","3","4","5","6","7","8","9"}
Letters == {LowerCase[i] : i \in 1..26} \cup {UpperCase[i] : i \in 1..26}

Min(a, b) == IF a < b THEN a ELSE b

\* n times the character c
Repeat(c, n) == [i \in 1..n |-> c]

\* the mark a slice expression out of range leaves: the run-time panic
Panic == "panic: slice bounds out of range"

\* s[:n] and s[n:]
SliceTo(s, n) == IF n < 0 \/ n > Len(s) THEN <<Panic>> ELSE SubSeq(s, 1, n)
SliceFrom(s, n) == IF n < 0 \/ n > Len(s) THEN <<Panic>> ELSE SubSeq(s, n + 1, Len(s))

\* pattern occurs in text at index i
OccursAt(text, pattern, i) ==
    /\ i + Len(pattern) <= Len(text)
    /\ \A j \in 1..Len(pattern) : text[i + j] = pattern[j]

\* strings.Index and strings.LastIndex: -1 when the pattern does not occur
Index(text, pattern) ==
    LET at == {i \in 0..(Len(text) - Len(pattern)) : OccursAt(text, pattern, i)}
    IN  IF at = {} THEN -1 ELSE CHOOSE i \in at : \A j \in at : i <= j
LastIndex(text, pattern) ==
    LET at == {i \in 0..(Len(text) - Len(pattern)) : OccursAt(text, pattern, i)}
    IN  IF at = {} THEN -1 ELSE CHOOSE i \in at : \A j \in at : i >= j

\* every trailing c is removed
RECURSIVE TrimSuffix_all(_, _)
TrimSuffix_all(s, c) ==
    IF s # <<>> /\ s[Len(s)] = c THEN TrimSuffix_all(SubSeq(s, 1, Len(s) - 1), c)
    ELSE s

\* strings.TrimSuffix for a one-character suffix
TrimSuffix(s, c) ==
    IF s # <<>> /\ s[Len(s)] = c THEN SubSeq(s, 1, Len(s) - 1) ELSE s

\* strings.Join of texts with a separator text
RECURSIVE JoinTexts(_, _)
JoinTexts(parts, sep) ==
    IF parts = <<>> THEN <<>>
    ELSE IF Len(parts) = 1 THEN parts[1]
    ELSE parts[1] \o sep \o JoinTexts(Tail(parts), sep)

\* strings.ToLower on ASCII
ToLowerText(s) == [i \in 1..Len(s) |-> FoldChar(s[i])]

BlankLine == <<"\n", "\n">>
Ellipsis  == <<".", ".", ".">>

\* a *string field: nil or a text
NilString == [nil |-> TRUE, val |-> <<>>]
StringPtr(s) == [nil |-> FALSE, val |-> s]

\* the two copies of FormatHashtag in package services; a build holds one
HashtagCopies == {"lower-casing", "case-keeping"}

VARIABLES
    compose,    \* the followed call of a text function: its build, input, output
    republish,  \* history: the calls a republishing caller made so far
    startup     \* main from the start of the process to the open database

IsHashtagRune(r) == r \in Letters \/ r \in Digits \/ r = "_"
NotEmpty(s) == s # <<>>

\* a leading digit is dropped instead of emptying the hashtag
FormatHashtag_dropLeadingDigit(tag) ==
    LET result == SelectSeq(TrimSpace(tag), IsHashtagRune)
        formatted == IF compose.build = "lower-casing" THEN ToLowerText(result) ELSE result
    IN  IF Len(formatted) > 0 /\ formatted[1] \in Digits THEN Tail(formatted)
        ELSE formatted

\* FormatHashtag, as the copy the build holds defines it
FormatHashtag(tag) ==
    LET trimmed == TrimSpace(tag)
        result == SelectSeq(trimmed, IsHashtagRune)
        formatted == IF compose.build = "lower-casing" THEN ToLowerText(result) ELSE result
    IN  IF trimmed = <<>> THEN <<>>
        ELSE IF Len(formatted) > 0 /\ formatted[1] \in Digits THEN <<>>
        ELSE formatted

\* BuildBlogPostURL
BuildBlogPostURL(baseURL, postID) ==
    IF baseURL = <<>> \/ postID = <<>> THEN <<>>
    ELSE TrimSuffix(baseURL, "/") \o <<"/","b","l","o","g","/">> \o postID

TwitterLimit == 280
TwitterURLLength == 23
maxSummaryLength == 150
MinContentSpace == 50

\* calculateTwitterLength: one pattern's loop, from the occurrence at idx
RECURSIVE calculateTwitterLength_Loop(_, _, _, _)
calculateTwitterLength_Loop(text, pattern, idx, baseLength) ==
    IF idx = -1 THEN baseLength
    ELSE LET ends == {i \in idx..(Len(text) - 1) : text[i + 1] \in {" ", "\n", "\t"}}
             urlEnd == IF ends = {} THEN Len(text)
                       ELSE CHOOSE i \in ends : \A j \in ends : i <= j
             actualURLLength == urlEnd - idx
             adjusted == IF actualURLLength > TwitterURLLength
                         THEN baseLength - actualURLLength + TwitterURLLength
                         ELSE baseLength
             next == Index(SliceFrom(text, urlEnd), pattern)
         IN  calculateTwitterLength_Loop(text, pattern,
                 IF next # -1 THEN next + urlEnd ELSE -1, adjusted)

urlPatterns == <<<<"h","t","t","p",":","/","/">>,
                 <<"h","t","t","p","s",":","/","/">>>>

\* calculateTwitterLength
calculateTwitterLength(text) ==
    LET afterFirst ==
            calculateTwitterLength_Loop(text, urlPatterns[1],
                Index(text, urlPatterns[1]), Len(text))
    IN  calculateTwitterLength_Loop(text, urlPatterns[2],
            Index(text, urlPatterns[2]), afterFirst)

\* the cut is made whatever the length of the text
TruncateAtSentence_noLengthCheck(text, maxLength) ==
    LET truncated == SliceTo(text, maxLength)
        lastPeriod == LastIndex(truncated, <<".">>)
    IN  IF lastPeriod > maxLength \div 2
        THEN SliceTo(truncated, lastPeriod + 1) \o Ellipsis
        ELSE truncated \o Ellipsis

\* a period in the middle of the prefix is a sentence end too
TruncateAtSentence_atMidpoint(text, maxLength) ==
    IF Len(text) > maxLength
    THEN LET truncated == SliceTo(text, maxLength)
             lastPeriod == LastIndex(truncated, <<".">>)
         IN  IF lastPeriod >= maxLength \div 2
             THEN SliceTo(truncated, lastPeriod + 1) \o Ellipsis
             ELSE truncated \o Ellipsis
    ELSE text

\* the cut of a text longer than maxLength, at a sentence end when one lies
\* past the middle
TruncateAtSentence(text, maxLength) ==
    IF Len(text) > maxLength
    THEN LET truncated == SliceTo(text, maxLength)
             lastPeriod == LastIndex(truncated, <<".">>)
         IN  IF lastPeriod > maxLength \div 2
             THEN SliceTo(truncated, lastPeriod + 1) \o Ellipsis
             ELSE truncated \o Ellipsis
    ELSE text

\* the limit counts the hashtags kept, not the tags looked at
Hashtags_countKept(tags, maxHashtags) ==
    LET formatted == [i \in 1..Len(tags) |-> FormatHashtag(tags[i])]
        kept == SelectSeq(formatted, NotEmpty)
    IN  [i \in 1..Min(Len(kept), maxHashtags) |-> <<"#">> \o kept[i]]

\* "#"+FormatHashtag(tag) for the first maxHashtags tags, empty ones skipped
Hashtags(tags, maxHashtags) ==
    LET formatted == [i \in 1..Min(Len(tags), maxHashtags) |->
                         FormatHashtag(tags[i])]
        kept == SelectSeq(formatted, NotEmpty)
    IN  [i \in 1..Len(kept) |-> <<"#">> \o kept[i]]

\* the URL part: the post's own URL, or the permalink under baseURL
PostURL(blogPost, baseURL) ==
    IF ~blogPost.URL.nil /\ blogPost.URL.val # <<>> THEN <<blogPost.URL.val>>
    ELSE IF baseURL # <<>> THEN <<BuildBlogPostURL(baseURL, blogPost.ID)>>
    ELSE <<>>

\* buildTwitterPostText, first pass: the parts joined by a blank line
buildTwitterPostText_Joined(blogPost, tags, baseURL) ==
    LET title == IF blogPost.Title # <<>> THEN <<blogPost.Title>> ELSE <<>>
        body == IF ~blogPost.Summary.nil /\ blogPost.Summary.val # <<>>
                THEN <<TruncateAtSentence(blogPost.Summary.val, maxSummaryLength)>>
                ELSE IF blogPost.Content # <<>>
                THEN <<TruncateAtSentence(blogPost.Content, maxSummaryLength)>>
                ELSE <<>>
        hashtags == Hashtags(tags, 4)
        tagPart == IF hashtags # <<>> THEN <<JoinTexts(hashtags, <<" ">>)>> ELSE <<>>
    IN  JoinTexts(title \o body \o PostURL(blogPost, baseURL) \o tagPart, BlankLine)

\* buildTwitterPostText, second pass: taken when the first is too long
buildTwitterPostText_Shortened(blogPost, tags, baseURL) ==
    LET title == IF blogPost.Title # <<>> THEN blogPost.Title \o BlankLine ELSE <<>>
        link == PostURL(blogPost, baseURL)
        url == IF link # <<>> THEN BlankLine \o link[1] ELSE <<>>
        hashtagList == Hashtags(tags, 3)
        hashtags == IF hashtagList # <<>>
                    THEN BlankLine \o JoinTexts(hashtagList, <<" ">>) ELSE <<>>
        urlLength == IF url = <<>> THEN 0 ELSE TwitterURLLength
        space == TwitterLimit - Len(title) - urlLength - Len(hashtags)
        availableSpace == IF space < MinContentSpace THEN MinContentSpace ELSE space
        whole == IF ~blogPost.Summary.nil /\ blogPost.Summary.val # <<>>
                 THEN blogPost.Summary.val
                 ELSE blogPost.Content
        content ==
            IF Len(whole) > availableSpace
            THEN LET truncated == SliceTo(whole, availableSpace - 3)
                     lastPeriod == LastIndex(truncated, <<".">>)
                 IN  IF lastPeriod > availableSpace \div 2
                     THEN SliceTo(truncated, lastPeriod + 1) \o Ellipsis
                     ELSE truncated \o Ellipsis
            ELSE whole
        postText == title \o content \o url \o hashtags
        effectiveLength == calculateTwitterLength(postText)
        excess == effectiveLength - TwitterLimit
        contentLen == Len(content)
        maxActualLength == TwitterLimit - urlLength + Len(url) - 3
    IN  IF effectiveLength > TwitterLimit
        THEN IF contentLen > excess + 3
             THEN title \o SliceTo(content, contentLen - excess - 3) \o Ellipsis
                     \o url \o hashtags
             ELSE IF maxActualLength > 0 /\ Len(postText) > maxActualLength
             THEN SliceTo(postText, maxActualLength) \o Ellipsis
             ELSE postText
        ELSE postText

\* the second pass taken whatever the length of the first
buildTwitterPostText_alwaysShortened(blogPost, tags, baseURL) ==
    buildTwitterPostText_Shortened(blogPost, tags, baseURL)

\* buildTwitterPostText
buildTwitterPostText(blogPost, tags, baseURL) ==
    LET postText == buildTwitterPostText_Joined(blogPost, tags, baseURL)
    IN  IF calculateTwitterLength(postText) > TwitterLimit
        THEN buildTwitterPostText_Shortened(blogPost, tags, baseURL)
        ELSE postText

maxContentLength == 2000

\* buildLinkedInPostText
buildLinkedInPostText(blogPost, tags, baseURL) ==
    LET title == IF blogPost.Title # <<>> THEN <<blogPost.Title>> ELSE <<>>
        body == IF ~blogPost.Summary.nil /\ blogPost.Summary.val # <<>>
                THEN <<blogPost.Summary.val>>
                ELSE IF blogPost.Content # <<>>
                THEN <<TruncateAtSentence(blogPost.Content, maxContentLength)>>
                ELSE <<>>
        url == IF ~blogPost.URL.nil /\ blogPost.URL.val # <<>>
               THEN <<<<"R","e","a","d"," ","m","o","r","e",":"," ">> \o blogPost.URL.val>>
               ELSE IF baseURL # <<>>
               THEN <<<<"R","e","a","d"," ","m","o","r","e",":"," ">> \o TrimSuffix(baseURL, "/")
                        \o <<"/","b","l","o","g","/">> \o blogPost.ID>>
               ELSE <<>>
        hashtags == Hashtags(tags, Len(tags))
        tagPart == IF hashtags # <<>> THEN <<JoinTexts(hashtags, <<" ">>)>> ELSE <<>>
    IN  JoinTexts(title \o body \o url \o tagPart, BlankLine)

\* strings.Contains and strings.Split for a separator text
ContainsText(text, pattern) == Index(text, pattern) # -1
RECURSIVE SplitText(_, _)
SplitText(text, sep) ==
    LET at == Index(text, sep)
    IN  IF at = -1 THEN <<text>>
        ELSE <<SliceTo(text, at)>> \o SplitText(SliceFrom(text, at + Len(sep)), sep)

\* the texts of a list one after another
RECURSIVE Concat(_)
Concat(texts) == IF texts = <<>> THEN <<>> ELSE Head(texts) \o Concat(Tail(texts))

POpen  == <<"<","p",">">>
PClose == <<"<","/","p",">">>

\* buildSubstackHtml
buildSubstackHtml(blogPost, tags, imageURL, baseURL) ==
    LET figure == IF imageURL # <<>>
                  THEN <<"<","f","i","g","u","r","e",">","<","i","m","g"," ","s","r","c","=","\"">> \o imageURL
                          \o <<"\"",">","<","f","i","g","c","a","p","t","i","o","n",">","<","/","f","i","g","c","a","p","t","i","o","n",">","<","/","f","i","g","u","r","e",">","<","b","r",">">>
                  ELSE <<>>
        paragraphs == SplitText(blogPost.Content, BlankLine)
        content == IF ~ContainsText(blogPost.Content, POpen)
                   THEN Concat([i \in 1..Len(paragraphs) |->
                                   IF TrimSpace(paragraphs[i]) # <<>>
                                   THEN POpen \o paragraphs[i] \o PClose
                                   ELSE <<>>])
                   ELSE blogPost.Content
        hashtags == Hashtags(tags, Len(tags))
        tagPart == IF hashtags # <<>>
                   THEN POpen \o JoinTexts(hashtags, <<" ">>) \o PClose
                   ELSE <<>>
        link == PostURL(blogPost, baseURL)
        footer == IF link # <<>> /\ link[1] # <<>>
                  THEN <<"<","p",">","<","i",">","O","r","i","g","i","n","a","l","l","y"," ","p","u","b","l","i","s","h","e","d"," ","a","t"," ","<","a"," ","h","r","e","f","=","\"">>
                          \o link[1] \o <<"\"",">">> \o link[1] \o <<"<","/","a",">","<","/","i",">","<","/","p",">">>
                  ELSE <<>>
    IN  figure \o content \o tagPart \o footer

\* buildMediumPayload: the fields of the payload; no tags and no canonical
\* URL stand for the keys the map does not get
buildMediumPayload(blogPost, tags, contentFormat, publishStatus) ==
    LET tagList == SelectSeq([i \in 1..Len(tags) |-> TrimSpace(tags[i])], NotEmpty)
    IN  [title |-> blogPost.Title,
         contentFormat |-> contentFormat,
         content |-> blogPost.Content,
         publishStatus |-> publishStatus,
         tags |-> SubSeq(tagList, 1, Min(Len(tagList), 5)),
         canonicalUrl |-> IF ~blogPost.URL.nil /\ blogPost.URL.val # <<>>
                          THEN blogPost.URL ELSE NilString]

\* The inputs the text functions are applied to.
\* BlogPost.ID.String(): 36 characters
PostIDString ==
    [i \in 1..36 |-> IF i \in {9, 14, 19, 24} THEN "-" ELSE "0"]

\* the fields of a post the composers read
TextPost(title, summary, content, url) ==
    [ID |-> PostIDString, Title |-> title, Summary |-> summary,
     Content |-> content, URL |-> url]

ComposeTitles == {<<>>, <<"N","e","w"," ","p","o","s","t">>, Repeat("m", maxSummaryLength),
     Repeat("t", LongTitleLength)}
ComposeSummaries ==
    {NilString, StringPtr(<<>>), StringPtr(<<"A"," ","s","h","o","r","t"," ","s","u","m","m","a","r","y",".">>),
     StringPtr(Repeat("s", 100) \o <<".">> \o Repeat("u", LongTextLength))}
ComposeContents ==
    {<<>>, <<"S","o","m","e"," ","c","o","n","t","e","n","t",".">>,
     Repeat("c", 60) \o <<".">> \o Repeat("d", LongTextLength),
     Repeat("e", LongTextLength)}
ComposeURLs ==
    {NilString, StringPtr(<<>>),
     StringPtr(<<"h","t","t","p","s",":","/","/","b","l","o","g",".","e","x","a","m","p","l","e",".","c","o","m","/","p","o","s","t","s","/","c","h","e","c","k","i","n","g","-","a","-","s","p","e","c","i","f","i","c","a","t","i","o","n","-","a","g","a","i","n","s","t","-","i","t","s","-","c","o","d","e">>)}
BaseURLs == {<<>>, <<"h","t","t","p","s",":","/","/","e","x","a","m","p","l","e",".","c","o","m","/">>,
             <<"h","t","t","p","s",":","/","/","e","x","a","m","p","l","e",".","c","o","m">>}
ComposeTagLists ==
    {<<>>,
     <<<<"G","o"," ","L","a","n","g">>, <<"2","f","a","s","t">>, <<" ","w","e","b","-","d","e","v"," ">>, <<"a","_","b">>, <<"T","L","A">>>>}
ComposePosts ==
    {TextPost(title, summary, content, url) :
        title \in ComposeTitles, summary \in ComposeSummaries,
        content \in ComposeContents, url \in ComposeURLs}

\* posts of nothing but a body whose only period is the character at the
\* middle index of the first maxLength characters
MidpointText(maxLength) ==
    Repeat("a", maxLength \div 2) \o <<".">> \o Repeat("b", maxLength)
MidpointPosts(maxLength) ==
    {TextPost(<<>>, StringPtr(MidpointText(maxLength)), <<>>, NilString),
     TextPost(<<>>, NilString, MidpointText(maxLength), NilString)}

\* texts whose Twitter length is computed
LengthTexts ==
    {<<>>,
     <<"n","o"," ","l","i","n","k"," ","i","n"," ","t","h","i","s"," ","t","e","x","t">>,
     <<"h","t","t","p",":","/","/","a",".","c","o">>,
     <<"h","t","t","p","s",":","/","/","e","x","a","m","p","l","e",".","c","o","m","/","p","/","1">>,
     <<"h","t","t","p","s",":","/","/","e","x","a","m","p","l","e",".","c","o","m","/","p","/","1","2">>,
     <<"R","e","a","d"," ","h","t","t","p","s",":","/","/","b","l","o","g",".","e","x","a","m","p","l","e",".","c","o","m","/","p","o","s","t","s","/","a","-","l","o","n","g","-","p","a","t","h","-","h","e","r","e"," ","n","o","w">>,
     <<"h","t","t","p",":","/","/","o","n","e",".","e","x","a","m","p","l","e",".","c","o","m","/","a","/","l","o","n","g","/","p","a","t","h","/","f","i","r","s","t"," ","h","t","t","p","s",":","/","/","t","w","o",".","e","x","a","m","p","l","e",".","c","o","m","/","a","/","l","o","n","g","/","p","a","t","h","/","s","e","c","o","n","d">>,
     <<"h","t","t","p","s",":","/","/","o","n","e",".","e","x","a","m","p","l","e",".","c","o","m","/","a","/","l","o","n","g","/","p","a","t","h","/","f","i","r","s","t">> \o <<"\n">>
         \o <<"h","t","t","p","s",":","/","/","t","w","o",".","e","x","a","m","p","l","e",".","c","o","m","/","a","/","l","o","n","g","/","p","a","t","h","/","s","e","c","o","n","d">> \o <<"\t">> \o <<"e","n","d">>,
     <<"h","t","t","p","s",":","/","/","w","e","b",".","a","r","c","h","i","v","e",".","o","r","g","/","w","e","b","/","h","t","t","p",":","/","/","e","x","a","m","p","l","e",".","c","o","m","/","p","a","g","e">>,
     <<"S","e","e"," ","h","t","t","p","s",":","/","/","w","e","b",".","a","r","c","h","i","v","e",".","o","r","g","/","w","e","b","/","2","0","2","0","/","h","t","t","p",":","/","/","e","x","a","m","p","l","e",".","c","o","m","/","a","/","p","a","g","e","/","w","i","t","h","/","a","/","l","o","n","g","/","p","a","t","h","/","b","e","l","o","w","/","t","h","e","/","r","o","o","t",".","h","t","m","l">>}

\* tags that give the same hashtag
DuplicateTags == <<<<"G","o">>, <<" ","g","o">>, <<"g","-","o">>>>

HashtagInputs ==
    {<<>>,
     <<" "," ">>,
     <<"G","o"," ","L","a","n","g">>,
     <<"2","f","a","s","t">>,
     <<" ","w","e","b","-","d","e","v"," ">>,
     <<"a","_","b">>,
     <<"T","L","A">>,
     <<"é","1">>,
     <<"-","9","x">>,
     <<"_","_">>,
     <<" ","#","g","o","!"," ","\n">>,
     <<"2","2","a">>,
     <<"W","e","b"," ","3",".","0">>}

URLBases ==
    BaseURLs \cup {<<"h","t","t","p","s",":","/","/","e","x","a","m","p","l","e",".","c","o","m","/","/">>,
                  <<"/">>}
PostIDs_Text == {<<>>, <<"a","b","c">>, PostIDString}

\* posts for the composers without a length limit of their own
LongPosts ==
    {TextPost(title, summary, content, url) :
        title \in {<<>>, <<"N","e","w"," ","p","o","s","t">>},
        summary \in {NilString, StringPtr(<<>>), StringPtr(<<"A"," ","s","h","o","r","t"," ","s","u","m","m","a","r","y",".">>)},
        content \in {<<>>, <<"S","o","m","e"," ","c","o","n","t","e","n","t",".">>,
                     <<"O","n","e",".","\n","\n","T","w","o",".","\n","\n"," ","\n","\n","T","h","r","e","e",".">>,
                     <<"<","p",">","M","a","r","k","e","d"," ","u","p",".","<","/","p",">">>,
                     Repeat("f", 1200) \o <<".">> \o Repeat("g", LongContentLength),
                     Repeat("h", 100) \o <<".">>
                         \o Repeat("i", maxContentLength + LongContentLength)},
        url \in ComposeURLs}
ImageTexts == {<<>>, <<"h","t","t","p","s",":","/","/","i","m","g",".","e","x","a","m","p","l","e",".","c","o","m","/","m","a","i","n",".","p","n","g">>}

NoTextPost == TextPost(<<>>, NilString, <<>>, NilString)
\* a variable of the process environment: os.LookupEnv tells unset from empty
Unset == [exists |-> FALSE, value |-> <<>>]
Set(value) == [exists |-> TRUE, value |-> value]

\* the process before main runs
NoStartup == [step |-> "", environ |-> <<>>, connStr |-> <<>>, status |-> 0]

\* main before errChannel is made: no goroutine started, no channel
NoShutdown == [main |-> "make", Start |-> "", listenToInterrupt |-> "",
               errChannel |-> "nil", sent |-> [Start |-> "", listenToInterrupt |-> ""],
               active |-> 0, closing |-> FALSE, fatalErr |-> "",
               process |-> "running"]

\* no call made yet by the republishing caller
NoRepublish == [calls |-> 0, invoked |-> <<0, 0, 0, 0>>]

NoInput == [blogPost |-> NoTextPost, tags |-> <<>>, baseURL |-> <<>>,
            imageURL |-> <<>>, text |-> <<>>,
            cfg |-> {}, meResp |-> <<>>, resp |-> <<>>]
NoCall == [op |-> "", build |-> "", in |-> NoInput, out |-> <<>>, done |-> FALSE]

(***************************************************************************)
(* Errors: Go's error interface value, nil or a message.                   *)
(***************************************************************************)
Nil == [nil |-> TRUE, text |-> <<>>]
Errorf(text) == [nil |-> FALSE, text |-> text]


(***************************************************************************)
(* Platforms, in the order PostEverywhere treats them, and their names.    *)
(***************************************************************************)
Platforms == <<"Substack", "Medium", "Twitter", "LinkedIn">>

NameSubstack == <<"s","u","b","s","t","a","c","k">>
NameMedium   == <<"m","e","d","i","u","m">>
NameTwitter  == <<"t","w","i","t","t","e","r">>
NameLinkedIn == <<"l","i","n","k","e","d","i","n">>

\* the lower-case name PostEverywhere looks up for a platform
PlatformName(p) ==
    CASE p = "Substack" -> NameSubstack
      [] p = "Medium"   -> NameMedium
      [] p = "Twitter"  -> NameTwitter
      [] p = "LinkedIn" -> NameLinkedIn

(***************************************************************************)
(* Process-wide configuration: the environment keys that hold a non-empty  *)
(* value (config.GetString(cfg, key, "") # "").                            *)
(***************************************************************************)
SubstackKeys == {"SUBSTACK_COOKIE", "SUBSTACK_DOMAIN"}
MediumKeys   == {"MEDIUM_INTEGRATION_TOKEN"}
TwitterKeys  == {"TWITTER_API_KEY", "TWITTER_API_KEY_SECRET",
                 "TWITTER_ACCESS_TOKEN", "TWITTER_ACCESS_TOKEN_SECRET"}
LinkedInKeys == {"LINKEDIN_ACCESS_TOKEN", "LINKEDIN_PERSON_URN"}
AllKeys      == SubstackKeys \cup MediumKeys \cup TwitterKeys \cup LinkedInKeys

\* configurations the process is started under
Configs == {AllKeys, AllKeys \ {"MEDIUM_INTEGRATION_TOKEN", "TWITTER_ACCESS_TOKEN"}, {}}

\* the processes: the environment each is started under and the .env file
\* its publishers find (none in the working directory main loaded from)
Processes ==
    {[env |-> cfg, dotenv |-> {}] : cfg \in Configs}
        \cup {[env |-> AllKeys \ {"MEDIUM_INTEGRATION_TOKEN", "TWITTER_ACCESS_TOKEN"},
               dotenv |-> {"MEDIUM_INTEGRATION_TOKEN", "TWITTER_ACCESS_TOKEN",
                           "LINKEDIN_PERSON_URN"}]}

\* godotenv.Load: the variables of the file that the environment lacks are
\* set; the ones it has are kept
Load(environ, file) == environ \cup file

\* HTTP status codes
StatusOK                  == 200
StatusCreated             == 201
StatusBadRequest          == 400
StatusNotFound            == 404
StatusConflict            == 409
StatusInternalServerError == 500
StatusServiceUnavailable  == 503

\* the body of a response as the publishers tell bodies apart: a JSON
\* document with the fields of the platform's answer, a JSON document without
\* them, a text that is not JSON, and a body whose read fails (io.ReadAll)
ResponseBodies == {"json", "{}", "text", "unreadable"}

\* what client.Do(req) returns: a response with a status code and a body, or
\* an error
HTTPResponse(status, body) == [err |-> FALSE, StatusCode |-> status, body |-> body]
Response(status) == HTTPResponse(status, "json")
TransportFailure == [err |-> TRUE, StatusCode |-> 0, body |-> ""]

\* answers of the remote services to the publish request
Responses   == {Response(StatusCreated), Response(StatusInternalServerError)}
\* answers of Medium's /me endpoint
MeResponses == {Response(StatusOK), Response(StatusInternalServerError)}
\* the answers a publisher called on its own is given
AnyResponses ==
    {TransportFailure} \cup
    {HTTPResponse(status, body) :
        status \in {StatusOK, StatusCreated, StatusInternalServerError},
        body \in ResponseBodies}

\* the outcome of a publisher call: the error it returns and the number of
\* HTTP requests it issued
Outcome(err, requests) == [err |-> err, requests |-> requests]

(***************************************************************************)
(* The publishers.  blogPost, tags and mainImageURL only shape the payload *)
(* of the request; the result depends on the configuration and on the      *)
(* remote answer.                                                          *)
(***************************************************************************)
PostToSubstack(blogPost, tags, mainImageURL, cfg, resp) ==
    IF "SUBSTACK_COOKIE" \notin cfg
    THEN Outcome(Errorf(<<"SUBSTACK_COOKIE environment variable is required (connect.sid)">>), 0)
    ELSE IF "SUBSTACK_DOMAIN" \notin cfg
    THEN Outcome(Errorf(<<"SUBSTACK_DOMAIN environment variable is required">>), 0)
    ELSE IF resp.err
    THEN Outcome(Errorf(<<"failed to send request to Substack: ", "<transport error>">>), 1)
    ELSE IF resp.body = "unreadable"
    THEN Outcome(Errorf(<<"failed to read Substack response: ", "<read error>">>), 1)
    ELSE IF resp.StatusCode # StatusOK /\ resp.StatusCode # StatusCreated
    THEN Outcome(Errorf(<<"substack API error (status ", ToString(resp.StatusCode), "): ", "<body>">>), 1)
    ELSE Outcome(Nil, 1)

\* getMediumUserID: the user id, or the error
getMediumUserID(meResp) ==
    IF meResp.err
    THEN Errorf(<<"failed to send request to Medium API: ", "<transport error>">>)
    ELSE IF meResp.body = "unreadable"
    THEN Errorf(<<"failed to read Medium API response: ", "<read error>">>)
    ELSE IF meResp.StatusCode # StatusOK
    THEN Errorf(<<"Medium API error (status ", ToString(meResp.StatusCode), "): ", "<body>">>)
    ELSE IF meResp.body = "text"
    THEN Errorf(<<"failed to parse Medium user response: ", "<syntax error>">>)
    ELSE IF meResp.body = "{}"
    THEN Errorf(<<"Medium API returned empty user ID">>)
    ELSE Nil

\* the integration token is looked at only once the user id is there
PostToMedium_tokenCheckedLate(blogPost, tags, cfg, meResp, resp) ==
    IF ~getMediumUserID(meResp).nil
    THEN Outcome(Errorf(<<"failed to get Medium user ID: ">> \o getMediumUserID(meResp).text), 1)
    ELSE IF "MEDIUM_INTEGRATION_TOKEN" \notin cfg
    THEN Outcome(Errorf(<<"MEDIUM_INTEGRATION_TOKEN environment variable is required in .env file">>), 1)
    ELSE IF resp.err
    THEN Outcome(Errorf(<<"failed to send request to Medium API: ", "<transport error>">>), 2)
    ELSE IF resp.body = "unreadable"
    THEN Outcome(Errorf(<<"failed to read Medium API response: ", "<read error>">>), 2)
    ELSE IF resp.StatusCode # StatusOK /\ resp.StatusCode # StatusCreated
    THEN Outcome(Errorf(<<"Medium API error (status ", ToString(resp.StatusCode), "): ", "<body>">>), 2)
    ELSE Outcome(Nil, 2)

PostToMedium(blogPost, tags, cfg, meResp, resp) ==
    IF "MEDIUM_INTEGRATION_TOKEN" \notin cfg
    THEN Outcome(Errorf(<<"MEDIUM_INTEGRATION_TOKEN environment variable is required in .env file">>), 0)
    ELSE IF ~getMediumUserID(meResp).nil
    THEN Outcome(Errorf(<<"failed to get Medium user ID: ">> \o getMediumUserID(meResp).text), 1)
    ELSE IF resp.err
    THEN Outcome(Errorf(<<"failed to send request to Medium API: ", "<transport error>">>), 2)
    ELSE IF resp.body = "unreadable"
    THEN Outcome(Errorf(<<"failed to read Medium API response: ", "<read error>">>), 2)
    ELSE IF resp.StatusCode # StatusOK /\ resp.StatusCode # StatusCreated
    THEN Outcome(Errorf(<<"Medium API error (status ", ToString(resp.StatusCode), "): ", "<body>">>), 2)
    ELSE Outcome(Nil, 2)

PostToTwitter(blogPost, tags, cfg, resp) ==
    IF "TWITTER_API_KEY" \notin cfg
    THEN Outcome(Errorf(<<"TWITTER_API_KEY environment variable is required">>), 0)
    ELSE IF "TWITTER_API_KEY_SECRET" \notin cfg
    THEN Outcome(Errorf(<<"TWITTER_API_KEY_SECRET environment variable is required">>), 0)
    ELSE IF "TWITTER_ACCESS_TOKEN" \notin cfg
    THEN Outcome(Errorf(<<"TWITTER_ACCESS_TOKEN environment variable is required">>), 0)
    ELSE IF "TWITTER_ACCESS_TOKEN_SECRET" \notin cfg
    THEN Outcome(Errorf(<<"TWITTER_ACCESS_TOKEN_SECRET environment variable is required">>), 0)
    ELSE IF resp.err
    THEN Outcome(Errorf(<<"failed to send request to Twitter API: ", "<transport error>">>), 1)
    ELSE IF resp.body = "unreadable"
    THEN Outcome(Errorf(<<"failed to read Twitter API response: ", "<read error>">>), 1)
    ELSE IF resp.StatusCode # StatusCreated
    THEN Outcome(Errorf(<<"twitter API error (status ", ToString(resp.StatusCode), "): ", "<body>">>), 1)
    ELSE Outcome(Nil, 1)

\* an answer that cannot be parsed is a failure
PostToLinkedIn_parseFailureFatal(blogPost, tags, cfg, resp) ==
    IF "LINKEDIN_ACCESS_TOKEN" \notin cfg
    THEN Outcome(Errorf(<<"LINKEDIN_ACCESS_TOKEN environment variable is required in .env file">>), 0)
    ELSE IF "LINKEDIN_PERSON_URN" \notin cfg
    THEN Outcome(Errorf(<<"LINKEDIN_PERSON_URN environment variable is required in .env file">>), 0)
    ELSE IF resp.err
    THEN Outcome(Errorf(<<"failed to send request to LinkedIn API: ", "<transport error>">>), 1)
    ELSE IF resp.body = "unreadable"
    THEN Outcome(Errorf(<<"failed to read LinkedIn API response: ", "<read error>">>), 1)
    ELSE IF resp.StatusCode # StatusCreated
    THEN Outcome(Errorf(<<"LinkedIn API error (status ", ToString(resp.StatusCode), "): ", "<body>">>), 1)
    ELSE IF resp.body = "text"
    THEN Outcome(Errorf(<<"failed to parse LinkedIn API response: ", "<syntax error>">>), 1)
    ELSE Outcome(Nil, 1)

PostToLinkedIn(blogPost, tags, cfg, resp) ==
    IF "LINKEDIN_ACCESS_TOKEN" \notin cfg
    THEN Outcome(Errorf(<<"LINKEDIN_ACCESS_TOKEN environment variable is required in .env file">>), 0)
    ELSE IF "LINKEDIN_PERSON_URN" \notin cfg
    THEN Outcome(Errorf(<<"LINKEDIN_PERSON_URN environment variable is required in .env file">>), 0)
    ELSE IF resp.err
    THEN Outcome(Errorf(<<"failed to send request to LinkedIn API: ", "<transport error>">>), 1)
    ELSE IF resp.body = "unreadable"
    THEN Outcome(Errorf(<<"failed to read LinkedIn API response: ", "<read error>">>), 1)
    ELSE IF resp.StatusCode # StatusCreated
    THEN Outcome(Errorf(<<"LinkedIn API error (status ", ToString(resp.StatusCode), "): ", "<body>">>), 1)
    ELSE Outcome(Nil, 1)

(***************************************************************************)
(* State.                                                                  *)
(***************************************************************************)
VARIABLES
    env,        \* the process environment: the keys set to a non-empty value
    dotenv,     \* the .env file the publishers find: the keys it gives a value
    shutdown,   \* main's errChannel and the goroutines that send on it
    pc,         \* where the thread of control of the followed call stands
    args,       \* PostEverywhere's arguments
    errors,     \* PostEverywhere's local: the failure entries
    successes,  \* PostEverywhere's local: the platforms that succeeded
    result,     \* the error PostEverywhere returned
    trace,      \* history: the publisher calls and returns of this call
    blogPosts,  \* the blog_posts table: id -> row
    projects,   \* the projects table: id -> row
    req,        \* the locals of the followed create-blog-post request
    answered,   \* the status answered to the followed create request
    published   \* history: PostEverywhere calls made for the followed request

peVars   == <<args, errors, successes, result, trace>>
httpVars == <<blogPosts, projects, req, answered, published>>
\* what the components outside the request path hold
libVars  == <<compose, republish, startup, shutdown>>
vars     == <<env, dotenv, pc, args, errors, successes, result, trace,
              blogPosts, projects, req, answered, published, libVars>>

(***************************************************************************)
(* Values.                                                                 *)
(***************************************************************************)
PostIDs == 1..MaxPosts

BlogPost(id, title, content) == [ID |-> id, Title |-> title, Content |-> content]
NoPost == BlogPost(0, "", "")

\* a row of blog_posts (exists = FALSE: no row with this id)
Row(title, content) == [exists |-> TRUE, Title |-> title, Content |-> content]
NoRow == [exists |-> FALSE, Title |-> "", Content |-> ""]

ProjectIDs == 1..MaxProjects

\* the URL query of a request: parameter name -> value
NoQuery == [k \in {} |-> <<>>]
NoRequest == [blogPost |-> NoPost, query |-> NoQuery, authorization |-> <<>>,
              inserted |-> FALSE]
NoAnswer == [handler |-> "", status |-> 0]

NoArgs == [blogPost |-> NoPost, tags |-> <<>>, mainImageURL |-> <<>>,
           platformsToPost |-> <<>>]

\* names a caller may put in the selection
SelectionNames ==
    { NameSubstack,
      NameTwitter,
      NameLinkedIn,
      <<"M","e","d","i","u","m">>,
      <<"T","W","I","T","T","E","R">>,
      <<"m","e","d","i","u","m"," ">>,
      <<"r","s","s">>,
      <<>> }

\* one name three times, in two spellings, among blank and unknown names
MixedSelection ==
    <<NameTwitter, <<"T","W","I","T","T","E","R">>, <<>>, <<"r","s","s">>, NameTwitter, <<"m","e","d","i","u","m"," ">>, <<" ">>>>

\* every list of at most MaxSelection names, the list of all four platforms
\* and the mixed list
Selections ==
    UNION { [1..n -> SelectionNames] : n \in 0..MaxSelection }
        \cup {<<NameSubstack, NameMedium, NameTwitter, NameLinkedIn>>,
              MixedSelection}

ImageURLs == {<<>>, <<"https://img.example/main.png">>}
TagLists  == {<<>>, <<"go">>}
Posts     == {BlogPost(1, "A title", "Some content."), BlogPost(1, "", "")}

\* history records: a publisher is called; it returns err after issuing
\* `requests` HTTP requests
CallEvent(p) == [ev |-> "call", p |-> p, err |-> Nil, requests |-> 0]
ReturnEvent(p, out) ==
    [ev |-> "return", p |-> p, err |-> out.err, requests |-> out.requests]

(***************************************************************************)
(* services.PostEverywhere, one action per step of its body.               *)
(***************************************************************************)
\* a contains that takes the empty selection for "every platform"
contains_emptyMeansAll(slice, item) ==
    \/ slice = <<>>
    \/ \E i \in 1..Len(slice) : EqualFold(slice[i], item)

\* contains(slice, item): some element of slice equals item, ignoring case
contains(slice, item) ==
    \E i \in 1..Len(slice) : EqualFold(slice[i], item)

\* the blocks with the long-form and the microblog block exchanged
Stages_twitterFirst == <<"substack", "twitter", "medium", "linkedin">>

\* the blocks of PostEverywhere's body, in program order
Stages == <<"substack", "medium", "twitter", "linkedin">>

\* the position after a block
After(stage) ==
    LET k == CHOOSE i \in 1..Len(Stages) : Stages[i] = stage
    IN  IF k < Len(Stages) THEN Stages[k + 1] ELSE "summary"

\* fmt.Sprintf("<Platform>: %v", err)
Entry(p, err) == <<p, ": ">> \o err.text

\* the "if err := PostToX(...); err != nil {...} else {...}" of each block
Record(p, out) ==
    /\ errors' = IF out.err.nil THEN errors ELSE Append(errors, Entry(p, out.err))
    /\ successes' = IF out.err.nil THEN Append(successes, p) ELSE successes
    /\ trace' = Append(trace, ReturnEvent(p, out))

\* the Substack block without the mainImageURL guard
PostEverywhere_Substack_noImageCheck ==
    /\ pc = "substack"
    /\ IF contains(args.platformsToPost, NameSubstack)
       THEN /\ pc' = "PostToSubstack"
            /\ trace' = Append(trace, CallEvent("Substack"))
       ELSE /\ pc' = After("substack")
            /\ UNCHANGED trace
    /\ UNCHANGED <<env, dotenv, libVars, args, errors, successes, result, httpVars>>

PostEverywhere_Substack ==
    /\ pc = "substack"
    /\ IF contains(args.platformsToPost, NameSubstack)
       THEN IF args.mainImageURL # <<>>
            THEN /\ pc' = "PostToSubstack"
                 /\ trace' = Append(trace, CallEvent("Substack"))
                 /\ UNCHANGED errors
            ELSE /\ errors' = Append(errors,
                       <<"Substack", ": ", "mainImageURL is required but not provided">>)
                 /\ pc' = After("substack")
                 /\ UNCHANGED trace
       ELSE /\ pc' = After("substack")
            /\ UNCHANGED <<errors, trace>>
    /\ UNCHANGED <<env, dotenv, libVars, args, successes, result, httpVars>>

PostToSubstack_Return ==
    /\ pc = "PostToSubstack"
    /\ \E resp \in Responses :
          Record("Substack",
                 PostToSubstack(args.blogPost, args.tags, args.mainImageURL, Load(env, dotenv), resp))
    /\ pc' = After("substack")
    /\ env' = Load(env, dotenv)
    /\ UNCHANGED <<dotenv, libVars, args, result, httpVars>>

\* the Medium block as it was before the selection existed: always posts
PostEverywhere_Medium_unconditional ==
    /\ pc = "medium"
    /\ pc' = "PostToMedium"
    /\ trace' = Append(trace, CallEvent("Medium"))
    /\ UNCHANGED <<env, dotenv, libVars, args, errors, successes, result, httpVars>>

PostEverywhere_Medium ==
    /\ pc = "medium"
    /\ IF contains(args.platformsToPost, NameMedium)
       THEN /\ pc' = "PostToMedium"
            /\ trace' = Append(trace, CallEvent("Medium"))
       ELSE /\ pc' = After("medium")
            /\ UNCHANGED trace
    /\ UNCHANGED <<env, dotenv, libVars, args, errors, successes, result, httpVars>>

\* the long-form publisher reads the environment as the publishers before it
\* left it, without loading the file itself
PostToMedium_Return_noLoad ==
    /\ pc = "PostToMedium"
    /\ \E meResp \in MeResponses, resp \in Responses :
          Record("Medium", PostToMedium(args.blogPost, args.tags, env, meResp, resp))
    /\ pc' = After("medium")
    /\ UNCHANGED <<env, dotenv, libVars, args, result, httpVars>>

PostToMedium_Return ==
    /\ pc = "PostToMedium"
    /\ \E meResp \in MeResponses, resp \in Responses :
          Record("Medium", PostToMedium(args.blogPost, args.tags, Load(env, dotenv), meResp, resp))
    /\ pc' = After("medium")
    /\ env' = Load(env, dotenv)
    /\ UNCHANGED <<dotenv, libVars, args, result, httpVars>>

\* the Twitter block giving up once an earlier platform has failed
PostEverywhere_Twitter_stopOnError ==
    /\ pc = "twitter"
    /\ IF contains(args.platformsToPost, NameTwitter) /\ errors = <<>>
       THEN /\ pc' = "PostToTwitter"
            /\ trace' = Append(trace, CallEvent("Twitter"))
       ELSE /\ pc' = After("twitter")
            /\ UNCHANGED trace
    /\ UNCHANGED <<env, dotenv, libVars, args, errors, successes, result, httpVars>>

PostEverywhere_Twitter ==
    /\ pc = "twitter"
    /\ IF contains(args.platformsToPost, NameTwitter)
       THEN /\ pc' = "PostToTwitter"
            /\ trace' = Append(trace, CallEvent("Twitter"))
       ELSE /\ pc' = After("twitter")
            /\ UNCHANGED trace
    /\ UNCHANGED <<env, dotenv, libVars, args, errors, successes, result, httpVars>>

\* the microblog block runs once per occurrence of its name in the selection
PostToTwitter_Return_perOccurrence ==
    /\ pc = "PostToTwitter"
    /\ \E resp \in Responses :
          Record("Twitter", PostToTwitter(args.blogPost, args.tags, Load(env, dotenv), resp))
    /\ pc' = IF Cardinality({i \in 1..Len(trace) : trace[i].p = "Twitter"})
                   < Cardinality({i \in 1..Len(args.platformsToPost) :
                                     EqualFold(args.platformsToPost[i], NameTwitter)})
             THEN "twitter" ELSE After("twitter")
    /\ env' = Load(env, dotenv)
    /\ UNCHANGED <<dotenv, libVars, args, result, httpVars>>

PostToTwitter_Return ==
    /\ pc = "PostToTwitter"
    /\ \E resp \in Responses :
          Record("Twitter", PostToTwitter(args.blogPost, args.tags, Load(env, dotenv), resp))
    /\ pc' = After("twitter")
    /\ env' = Load(env, dotenv)
    /\ UNCHANGED <<dotenv, libVars, args, result, httpVars>>

\* a platform the caller's earlier call published to is skipped
PostEverywhere_LinkedIn_deduplicated ==
    /\ pc = "linkedin"
    /\ IF /\ contains(args.platformsToPost, NameLinkedIn)
          /\ republish.invoked[4] = 0
       THEN /\ pc' = "PostToLinkedIn"
            /\ trace' = Append(trace, CallEvent("LinkedIn"))
       ELSE /\ pc' = After("linkedin")
            /\ UNCHANGED trace
    /\ UNCHANGED <<env, dotenv, libVars, args, errors, successes, result, httpVars>>

PostEverywhere_LinkedIn ==
    /\ pc = "linkedin"
    /\ IF contains(args.platformsToPost, NameLinkedIn)
       THEN /\ pc' = "PostToLinkedIn"
            /\ trace' = Append(trace, CallEvent("LinkedIn"))
       ELSE /\ pc' = After("linkedin")
            /\ UNCHANGED trace
    /\ UNCHANGED <<env, dotenv, libVars, args, errors, successes, result, httpVars>>

PostToLinkedIn_Return ==
    /\ pc = "PostToLinkedIn"
    /\ \E resp \in Responses :
          Record("LinkedIn", PostToLinkedIn(args.blogPost, args.tags, Load(env, dotenv), resp))
    /\ pc' = After("linkedin")
    /\ env' = Load(env, dotenv)
    /\ UNCHANGED <<dotenv, libVars, args, result, httpVars>>

\* a summary that reports the first failure only
CombinedError_firstOnly(errs) ==
    IF Len(errs) > 0
    THEN Errorf(<<"some platforms failed: ">> \o errs[1])
    ELSE Nil

\* the value of the final "if len(errors) > 0 {...}; return nil"
CombinedError(errs) ==
    IF Len(errs) > 0
    THEN Errorf(<<"some platforms failed: ">> \o Join(errs, "; "))
    ELSE Nil

PostEverywhere_Return ==
    /\ pc = "summary"
    /\ result' = CombinedError(errors)
    /\ pc' = "returned"
    /\ UNCHANGED <<env, dotenv, libVars, args, errors, successes, trace, httpVars>>

(***************************************************************************)
(* A caller of PostEverywhere with arbitrary arguments.                    *)
(***************************************************************************)
Enter(blogPost, tags, mainImageURL, platformsToPost) ==
    /\ args' = [blogPost |-> blogPost, tags |-> tags,
                mainImageURL |-> mainImageURL,
                platformsToPost |-> platformsToPost]
    /\ errors' = <<>>
    /\ successes' = <<>>
    /\ result' = Nil
    /\ trace' = <<>>
    /\ pc' = Stages[1]

CallPostEverywhere ==
    /\ pc = "idle"
    /\ \E blogPost \in Posts, tags \in TagLists,
          mainImageURL \in ImageURLs, platformsToPost \in Selections :
          Enter(blogPost, tags, mainImageURL, platformsToPost)
    /\ UNCHANGED <<env, dotenv, libVars, httpVars>>

\* the values of a call are dropped
Leave ==
    /\ args' = NoArgs
    /\ errors' = <<>>
    /\ successes' = <<>>
    /\ result' = Nil
    /\ trace' = <<>>

\* a caller that only logs the result and goes on
CallerDone ==
    /\ pc = "returned"
    /\ pc' = "idle"
    /\ Leave
    /\ UNCHANGED <<env, dotenv, libVars, httpVars>>

Init ==
    /\ \E process \in Processes : env = process.env /\ dotenv = process.dotenv
    /\ pc = "idle"
    /\ args = NoArgs
    /\ errors = <<>>
    /\ successes = <<>>
    /\ result = Nil
    /\ trace = <<>>
    /\ blogPosts = [id \in PostIDs |-> NoRow]
    /\ projects = [id \in ProjectIDs |-> FALSE]
    /\ req = NoRequest
    /\ answered = NoAnswer
    /\ published = 0
    /\ compose = NoCall
    /\ republish = NoRepublish
    /\ startup = NoStartup
    /\ shutdown = NoShutdown

PostEverywhere ==
    \/ PostEverywhere_Substack
    \/ PostToSubstack_Return
    \/ PostEverywhere_Medium
    \/ PostToMedium_Return
    \/ PostEverywhere_Twitter
    \/ PostToTwitter_Return
    \/ PostEverywhere_LinkedIn
    \/ PostToLinkedIn_Return
    \/ PostEverywhere_Return

NextFanOut == CallPostEverywhere \/ PostEverywhere \/ CallerDone

SpecFanOut == Init /\ [][NextFanOut]_vars

(***************************************************************************)
(* A caller that publishes a post and then publishes the same post again.  *)
(***************************************************************************)
\* the publisher invocations of the call that just returned, per platform
Invocations ==
    [k \in 1..4 |->
        Cardinality({i \in 1..Len(trace) :
                        trace[i].ev = "call" /\ trace[i].p = Platforms[k]})]

Publish ==
    /\ pc = "idle"
    /\ republish = NoRepublish
    /\ \E blogPost \in Posts, tags \in TagLists,
          mainImageURL \in ImageURLs, platformsToPost \in Selections :
          Enter(blogPost, tags, mainImageURL, platformsToPost)
    /\ republish' = [calls |-> 1, invoked |-> <<0, 0, 0, 0>>]
    /\ UNCHANGED <<env, dotenv, shutdown, compose, startup, httpVars>>

\* the second call, with the arguments of the first
Republish ==
    /\ pc = "returned"
    /\ republish.calls = 1
    /\ Enter(args.blogPost, args.tags, args.mainImageURL, args.platformsToPost)
    /\ republish' = [calls |-> 2, invoked |-> Invocations]
    /\ UNCHANGED <<env, dotenv, shutdown, compose, startup, httpVars>>

RepublishDone ==
    /\ pc = "returned"
    /\ republish.calls = 2
    /\ pc' = "idle"
    /\ Leave
    /\ republish' = NoRepublish
    /\ UNCHANGED <<env, dotenv, shutdown, compose, startup, httpVars>>

NextRepublish == Publish \/ PostEverywhere \/ Republish \/ RepublishDone

SpecRepublish == Init /\ [][NextRepublish]_vars

(***************************************************************************)
(* The HTTP layer (api/routes.go, api/project_handler.go).  The server     *)
(* runs one goroutine per request: the create-blog-post request that is    *)
(* followed step by step interleaves with requests to the other endpoints, *)
(* each of which is one atomic step here.                                  *)
(***************************************************************************)

\* text of the errors the database layer returns, as fragments
ErrDuplicateKey   == <<"ERROR: ", "duplicate key", " value violates unique constraint">>
ErrRecordNotFound == <<"record ", "not found">>
ErrConnection     == <<"failed to connect: ", "connection", " refused">>
NoErr             == <<>>

\* the failures a database call can meet whatever the tables hold
DBFaults == {NoErr, ErrConnection}

\* strings.Contains on a text of fragments
Contains(text, fragment) == \E i \in 1..Len(text) : text[i] = fragment

\* errs.NewDatabaseError: the status is chosen from the cause's text
NewDatabaseError(cause) ==
    IF Contains(cause, "duplicate key") THEN StatusConflict
    ELSE IF Contains(cause, "foreign key constraint") THEN StatusBadRequest
    ELSE IF Contains(cause, "not found") THEN StatusNotFound
    ELSE IF Contains(cause, "connection") THEN StatusServiceUnavailable
    ELSE StatusInternalServerError

NewBadRequestError == StatusBadRequest

\* BlogPostRepo.FindByID: First(&blogPost, id)
FindByID(table, id, fault) ==
    IF fault # NoErr THEN [err |-> fault, row |-> NoRow]
    ELSE IF ~table[id].exists THEN [err |-> ErrRecordNotFound, row |-> NoRow]
    ELSE [err |-> NoErr, row |-> table[id]]

\* Title is a unique column of blog_posts
TitleTaken(table, id, title) ==
    \E other \in DOMAIN table :
        other # id /\ table[other].exists /\ table[other].Title = title

\* BlogPostRepo.Add: db.Create
Add(table, blogPost, fault) ==
    IF fault # NoErr THEN [err |-> fault, table |-> table]
    ELSE IF table[blogPost.ID].exists \/ TitleTaken(table, blogPost.ID, blogPost.Title)
    THEN [err |-> ErrDuplicateKey, table |-> table]
    ELSE [err |-> NoErr,
          table |-> [table EXCEPT ![blogPost.ID] = Row(blogPost.Title, blogPost.Content)]]

\* BlogPostRepo.Update: db.Save writes every column, zero values included
Update(table, blogPost, fault) ==
    IF fault # NoErr THEN [err |-> fault, table |-> table]
    ELSE IF TitleTaken(table, blogPost.ID, blogPost.Title)
    THEN [err |-> ErrDuplicateKey, table |-> table]
    ELSE [err |-> NoErr,
          table |-> [table EXCEPT ![blogPost.ID] = Row(blogPost.Title, blogPost.Content)]]

\* BlogPostRepo.Delete
Delete(table, id, fault) ==
    IF fault # NoErr THEN [err |-> fault, table |-> table]
    ELSE [err |-> NoErr, table |-> [table EXCEPT ![id] = NoRow]]

\* request bodies: unreadable, not JSON, or a JSON blog post
Titles   == {"", "A title"}
Contents == {"", "Some content."}
Bodies ==
    {[kind |-> "unreadable", blogPost |-> NoPost],
     [kind |-> "malformed", blogPost |-> NoPost]}
    \cup {[kind |-> "json", blogPost |-> BlogPost(id, title, content)] :
            id \in PostIDs, title \in Titles, content \in Contents}

\* the bodies the update endpoint is sent
UpdateBodies ==
    {[kind |-> "malformed", blogPost |-> NoPost],
     [kind |-> "json", blogPost |-> BlogPost(0, "", "")],
     [kind |-> "json", blogPost |-> BlogPost(0, "A title", "Some content.")]}

\* URL queries of the create request: parameter -> value
QueryTwitter    == <<"t","w","i","t","t","e","r">>
QueryTwoSpaced  == <<" ","M","e","d","i","u","m"," ",",","l","i","n","k","e","d","i","n">>
PlatformsParams == {<<>>, QueryTwitter, QueryTwoSpaced}
Queries ==
    {NoQuery}
    \cup {[k \in {"platforms"} |-> v] : v \in PlatformsParams}
    \cup {[k \in {"mainImageURL"} |-> v] : v \in ImageURLs \ {<<>>}}
    \cup {[k \in {"platforms", "mainImageURL"} |->
             IF k = "platforms" THEN QueryTwoSpaced
             ELSE <<"https://img.example/main.png">>]}

\* url.Values.Get: the value, or "" when the parameter is absent
Get(query, key) == IF key \in DOMAIN query THEN query[key] ELSE <<>>

\* the selection createBlogPost passes when the parameter gives none
DefaultPlatforms_none == <<>>
DefaultPlatforms == <<NameSubstack, NameMedium, NameTwitter, NameLinkedIn>>

\* createBlogPost: the selection made from the "platforms" parameter
PlatformsToPost(platformsParam) ==
    IF platformsParam # <<>>
    THEN LET pieces == Split(platformsParam, ",")
         IN  [i \in 1..Len(pieces) |-> TrimSpace(pieces[i])]
    ELSE DefaultPlatforms

\* the tags the reloaded post carries
CreatedTags == <<"go">>

\* WriteError / WriteHeader: the followed request is answered
Answer(handler, status) == answered' = [handler |-> handler, status |-> status]

\* createBlogPost up to blogPostRepo.Add
(***************************************************************************)
(* The middleware in front of the project and blog-post handlers.          *)
(***************************************************************************)
StatusUnauthorized == 401

Bearer == <<"B", "e", "a", "r", "e", "r", " ">>

\* strings.HasPrefix and strings.TrimPrefix
HasPrefix(s, prefix) ==
    /\ Len(prefix) <= Len(s)
    /\ \A i \in 1..Len(prefix) : s[i] = prefix[i]
TrimPrefix(s, prefix) ==
    IF HasPrefix(s, prefix) THEN SubSeq(s, Len(prefix) + 1, Len(s)) ELSE s

\* the Authorization header of a request; Header.Get gives "" when absent
Authorizations ==
    { <<>>, Bearer, Bearer \o <<"u", "1">> }

\* authMiddleware.authenticate: the status it answers, 0 when it calls next
authenticate(authHeader) ==
    IF ~HasPrefix(authHeader, Bearer) THEN StatusUnauthorized
    ELSE IF TrimPrefix(authHeader, Bearer) = <<>> THEN StatusUnauthorized
    ELSE 0

\* the middleware setupFrontendRoutes installs on the group of routes
Middlewares == <<"ColoredHTTPLoggingMiddleware">>

\* one middleware: the status it answers, 0 when it calls next
Middleware(name, authHeader) ==
    IF name = "authenticate" THEN authenticate(authHeader) ELSE 0

\* the chain in front of a route's handler: the status of the first
\* middleware that answers, 0 when the request reaches the handler
Chain(authHeader) ==
    LET stopped == {i \in 1..Len(Middlewares) :
                       Middleware(Middlewares[i], authHeader) # 0}
    IN  IF stopped = {} THEN 0
        ELSE Middleware(Middlewares[CHOOSE i \in stopped :
                                       \A j \in stopped : i <= j],
                        authHeader)

\* some request that reaches the handler of a route
Routed == \E authorization \in Authorizations : Chain(authorization) = 0

createBlogPost_Add ==
    /\ pc = "idle"
    /\ \E body \in Bodies, query \in Queries, fault \in DBFaults,
          authorization \in Authorizations :
          LET rejected ==
                  IF body.kind # "json" THEN TRUE
                  ELSE body.blogPost.Title = "" \/ body.blogPost.Content = ""
              added == Add(blogPosts, body.blogPost, fault)
          IN  IF Chain(authorization) # 0
              THEN /\ Answer("authenticate", Chain(authorization))
                   /\ req' = [blogPost |-> body.blogPost, query |-> query,
                              authorization |-> authorization,
                              inserted |-> FALSE]
                   /\ pc' = "idle"
                   /\ UNCHANGED blogPosts
              ELSE IF rejected
              THEN /\ Answer("createBlogPost", NewBadRequestError)
                   /\ req' = [blogPost |-> body.blogPost, query |-> query,
                              authorization |-> authorization,
                              inserted |-> FALSE]
                   /\ pc' = "idle"
                   /\ UNCHANGED blogPosts
              ELSE IF added.err # NoErr
              THEN /\ Answer("createBlogPost", NewDatabaseError(added.err))
                   /\ req' = [blogPost |-> body.blogPost, query |-> query,
                              authorization |-> authorization,
                              inserted |-> FALSE]
                   /\ pc' = "idle"
                   /\ UNCHANGED blogPosts
              ELSE /\ blogPosts' = added.table
                   /\ req' = [blogPost |-> body.blogPost, query |-> query,
                              authorization |-> authorization,
                              inserted |-> TRUE]
                   /\ pc' = "inserted"
                   /\ answered' = NoAnswer
    /\ published' = 0
    /\ Leave
    /\ UNCHANGED <<env, dotenv, libVars, projects>>

\* createBlogPost from the reload to the call of PostEverywhere
createBlogPost_Reload ==
    /\ pc = "inserted"
    /\ \E fault \in DBFaults :
          LET created == FindByID(blogPosts, req.blogPost.ID, fault)
          IN  IF created.err # NoErr
              THEN /\ Answer("createBlogPost", NewDatabaseError(created.err))
                   /\ pc' = "idle"
                   /\ UNCHANGED <<args, errors, successes, result, trace,
                                  published>>
              ELSE /\ Enter(BlogPost(req.blogPost.ID, created.row.Title,
                                     created.row.Content),
                            CreatedTags, Get(req.query, "mainImageURL"),
                            PlatformsToPost(Get(req.query, "platforms")))
                   /\ published' = published + 1
                   /\ UNCHANGED answered
    /\ UNCHANGED <<env, dotenv, libVars, blogPosts, projects, req>>

\* the error of PostEverywhere fails the request
createBlogPost_Respond_failOnPublishError ==
    /\ pc = "returned"
    /\ Answer("createBlogPost",
              IF result.nil THEN StatusCreated ELSE StatusInternalServerError)
    /\ pc' = "idle"
    /\ UNCHANGED <<env, dotenv, libVars, peVars, blogPosts, projects, req, published>>

\* createBlogPost after PostEverywhere returned: the error is only logged
createBlogPost_Respond ==
    /\ pc = "returned"
    /\ Answer("createBlogPost", StatusCreated)
    /\ pc' = "idle"
    /\ UNCHANGED <<env, dotenv, libVars, peVars, blogPosts, projects, req, published>>

\* getAllBlogPosts: FindAll, nothing is written
getAllBlogPosts ==
    /\ Routed
    /\ UNCHANGED vars

\* getBlogPost: FindByID, nothing is written
getBlogPost ==
    /\ Routed
    /\ UNCHANGED vars

\* an update that republishes the post
updateBlogPost_republish ==
    /\ Routed
    /\ \E id \in PostIDs, body \in UpdateBodies, fault \in DBFaults :
          LET found == FindByID(blogPosts, id, fault)
              post == BlogPost(id, body.blogPost.Title, body.blogPost.Content)
              updated == Update(blogPosts, post, NoErr)
          IN  IF found.err # NoErr \/ body.kind # "json" \/ updated.err # NoErr
              THEN UNCHANGED <<blogPosts, published>>
              ELSE /\ blogPosts' = updated.table
                   /\ published' = published + 1
    /\ UNCHANGED <<env, dotenv, libVars, pc, peVars, projects, req, answered>>

\* updateBlogPost: FindByID, decode, Update; title and content are not
\* checked.  Every path that answers an error leaves the table as it is.
updateBlogPost ==
    /\ Routed
    /\ \E id \in PostIDs, body \in UpdateBodies, fault \in DBFaults :
          LET found == FindByID(blogPosts, id, fault)
              post == BlogPost(id, body.blogPost.Title, body.blogPost.Content)
              updated == Update(blogPosts, post, NoErr)
          IN  IF found.err # NoErr \/ body.kind # "json" \/ updated.err # NoErr
              THEN UNCHANGED blogPosts
              ELSE blogPosts' = updated.table
    /\ UNCHANGED <<env, dotenv, libVars, pc, peVars, projects, req, answered, published>>

\* deleteBlogPost: FindByID, Delete
deleteBlogPost ==
    /\ Routed
    /\ \E id \in PostIDs, fault \in DBFaults :
          LET found == FindByID(blogPosts, id, fault)
              deleted == Delete(blogPosts, id, NoErr)
          IN  IF found.err # NoErr
              THEN UNCHANGED blogPosts
              ELSE blogPosts' = deleted.table
    /\ UNCHANGED <<env, dotenv, libVars, pc, peVars, projects, req, answered, published>>

\* getAllProjects and getProject: nothing is written
getProject ==
    /\ Routed
    /\ UNCHANGED vars

\* createProject: the title is checked, then projectRepo.Add; no publishing
createProject ==
    /\ Routed
    /\ \E id \in ProjectIDs, title \in Titles, fault \in DBFaults :
          IF title = "" \/ fault # NoErr \/ projects[id]
          THEN UNCHANGED projects
          ELSE projects' = [projects EXCEPT ![id] = TRUE]
    /\ UNCHANGED <<env, dotenv, libVars, pc, peVars, blogPosts, req, answered, published>>

\* updateProject: the row is rewritten, the set of projects stays
updateProject ==
    /\ Routed
    /\ UNCHANGED vars

\* deleteProject: FindByID, Delete
deleteProject ==
    /\ Routed
    /\ \E id \in ProjectIDs, fault \in DBFaults :
          IF fault # NoErr \/ ~projects[id]
          THEN UNCHANGED projects
          ELSE projects' = [projects EXCEPT ![id] = FALSE]
    /\ UNCHANGED <<env, dotenv, libVars, pc, peVars, blogPosts, req, answered, published>>

\* the create-blog-post request that is followed
createBlogPost ==
    \/ createBlogPost_Add
    \/ createBlogPost_Reload
    \/ PostEverywhere
    \/ createBlogPost_Respond

\* requests served by other goroutines meanwhile
OtherRequest ==
    \/ getAllBlogPosts
    \/ getBlogPost
    \/ updateBlogPost
    \/ deleteBlogPost
    \/ getProject
    \/ createProject
    \/ updateProject
    \/ deleteProject

Next == createBlogPost \/ OtherRequest

Spec == Init /\ [][Next]_vars

(***************************************************************************)
(* The text functions of package services, each applied to drawn inputs.   *)
(***************************************************************************)
\* a text function is called with drawn inputs
Call(op, in) ==
    /\ compose = NoCall
    /\ \E build \in HashtagCopies :
          compose' = [op |-> op, build |-> build, in |-> in, out |-> <<>>,
                      done |-> FALSE]
    /\ UNCHANGED <<env, dotenv, shutdown, republish, startup, pc, peVars, httpVars>>

\* the called function returns out
Return(op, out) ==
    /\ compose.op = op
    /\ ~compose.done
    /\ compose' = [compose EXCEPT !.out = out, !.done = TRUE]
    /\ UNCHANGED <<env, dotenv, shutdown, republish, startup, pc, peVars, httpVars>>

Call_buildTwitterPostText ==
    \E blogPost \in ComposePosts \cup MidpointPosts(maxSummaryLength),
       tags \in ComposeTagLists \cup {DuplicateTags}, baseURL \in BaseURLs :
        Call("buildTwitterPostText",
             [NoInput EXCEPT !.blogPost = blogPost, !.tags = tags,
                             !.baseURL = baseURL])

Return_buildTwitterPostText ==
    Return("buildTwitterPostText",
           buildTwitterPostText(compose.in.blogPost, compose.in.tags,
                                compose.in.baseURL))

Call_FormatHashtag ==
    \E tag \in HashtagInputs :
        Call("FormatHashtag", [NoInput EXCEPT !.text = tag])

Return_FormatHashtag ==
    Return("FormatHashtag", FormatHashtag(compose.in.text))

\* BuildBlogPostURL(baseURL, postID): the post id is the text of the input
Call_BuildBlogPostURL ==
    \E baseURL \in URLBases, postID \in PostIDs_Text :
        Call("BuildBlogPostURL",
             [NoInput EXCEPT !.baseURL = baseURL, !.text = postID])

Return_BuildBlogPostURL ==
    Return("BuildBlogPostURL",
           BuildBlogPostURL(compose.in.baseURL, compose.in.text))

Call_calculateTwitterLength ==
    \E text \in LengthTexts :
        Call("calculateTwitterLength", [NoInput EXCEPT !.text = text])

Return_calculateTwitterLength ==
    Return("calculateTwitterLength", calculateTwitterLength(compose.in.text))

Call_buildLinkedInPostText ==
    \E blogPost \in LongPosts \cup MidpointPosts(maxContentLength),
       tags \in ComposeTagLists, baseURL \in BaseURLs :
        Call("buildLinkedInPostText",
             [NoInput EXCEPT !.blogPost = blogPost, !.tags = tags,
                             !.baseURL = baseURL])

Return_buildLinkedInPostText ==
    Return("buildLinkedInPostText",
           buildLinkedInPostText(compose.in.blogPost, compose.in.tags,
                                 compose.in.baseURL))

Call_buildMediumPayload ==
    \E blogPost \in LongPosts, tags \in ComposeTagLists :
        Call("buildMediumPayload",
             [NoInput EXCEPT !.blogPost = blogPost, !.tags = tags])

\* PostToMedium's call, with the content format and publish status a
\* configuration without MEDIUM_CONTENT_FORMAT and MEDIUM_PUBLISH_STATUS gives
Return_buildMediumPayload ==
    Return("buildMediumPayload",
           buildMediumPayload(compose.in.blogPost, compose.in.tags, "html", "public"))

Call_buildSubstackHtml ==
    \E blogPost \in LongPosts, tags \in ComposeTagLists,
       imageURL \in ImageTexts, baseURL \in BaseURLs :
        Call("buildSubstackHtml",
             [NoInput EXCEPT !.blogPost = blogPost, !.tags = tags,
                             !.imageURL = imageURL, !.baseURL = baseURL])

Return_buildSubstackHtml ==
    Return("buildSubstackHtml",
           buildSubstackHtml(compose.in.blogPost, compose.in.tags,
                             compose.in.imageURL, compose.in.baseURL))

\* the caller takes the result
ComposeDone ==
    /\ compose.done
    /\ compose' = NoCall
    /\ UNCHANGED <<env, dotenv, shutdown, republish, startup, pc, peVars, httpVars>>

NextCompose ==
    \/ Call_buildTwitterPostText
    \/ Return_buildTwitterPostText
    \/ Call_FormatHashtag
    \/ Return_FormatHashtag
    \/ Call_BuildBlogPostURL
    \/ Return_BuildBlogPostURL
    \/ Call_calculateTwitterLength
    \/ Return_calculateTwitterLength
    \/ Call_buildLinkedInPostText
    \/ Call_buildMediumPayload
    \/ Return_buildMediumPayload
    \/ Return_buildLinkedInPostText
    \/ Call_buildSubstackHtml
    \/ Return_buildSubstackHtml
    \/ ComposeDone

\* the text functions read no configuration: one environment is enough
InitCompose == Init /\ env = AllKeys

SpecCompose == InitCompose /\ [][NextCompose]_vars

(***************************************************************************)
(* A publisher called on its own: the call loads the .env file and reads   *)
(* the configuration, the return is what the remote answers make of it.    *)
(***************************************************************************)
Publishers == {"PostToSubstack", "PostToMedium", "PostToTwitter", "PostToLinkedIn"}

\* godotenv.Load and config.New at the head of a publisher
CallPublisher(op, meResp, resp) ==
    /\ compose = NoCall
    /\ \E build \in HashtagCopies :
          compose' = [op |-> op, build |-> build,
                      in |-> [NoInput EXCEPT !.cfg = Load(env, dotenv),
                                             !.meResp = meResp, !.resp = resp],
                      out |-> <<>>, done |-> FALSE]
    /\ env' = Load(env, dotenv)
    /\ UNCHANGED <<dotenv, shutdown, republish, startup, pc, peVars, httpVars>>

Call_PostToSubstack ==
    \E resp \in AnyResponses : CallPublisher("PostToSubstack", TransportFailure, resp)

Return_PostToSubstack ==
    Return("PostToSubstack",
           PostToSubstack(compose.in.blogPost, compose.in.tags, compose.in.imageURL,
                          compose.in.cfg, compose.in.resp))

Call_PostToMedium ==
    \E meResp \in AnyResponses, resp \in AnyResponses :
        CallPublisher("PostToMedium", meResp, resp)

Return_PostToMedium ==
    Return("PostToMedium",
           PostToMedium(compose.in.blogPost, compose.in.tags, compose.in.cfg,
                        compose.in.meResp, compose.in.resp))

Call_PostToTwitter ==
    \E resp \in AnyResponses : CallPublisher("PostToTwitter", TransportFailure, resp)

Return_PostToTwitter ==
    Return("PostToTwitter",
           PostToTwitter(compose.in.blogPost, compose.in.tags, compose.in.cfg,
                         compose.in.resp))

Call_PostToLinkedIn ==
    \E resp \in AnyResponses : CallPublisher("PostToLinkedIn", TransportFailure, resp)

Return_PostToLinkedIn ==
    Return("PostToLinkedIn",
           PostToLinkedIn(compose.in.blogPost, compose.in.tags, compose.in.cfg,
                          compose.in.resp))

NextPublish ==
    \/ Call_PostToSubstack
    \/ Return_PostToSubstack
    \/ Call_PostToMedium
    \/ Return_PostToMedium
    \/ Call_PostToTwitter
    \/ Return_PostToTwitter
    \/ Call_PostToLinkedIn
    \/ Return_PostToLinkedIn
    \/ ComposeDone

SpecPublish == Init /\ [][NextPublish]_vars

(***************************************************************************)
(* main: from the environment to the open database connection.             *)
(***************************************************************************)
\* getEnv: the value when the variable exists, the fallback otherwise
getEnv(environ, key, fallback) ==
    IF environ[key].exists THEN environ[key].value ELSE fallback

PoolerPort == <<"6","5","4","3">>
DefaultURLPort == <<"5","4","3","2">>
DefaultDBName == <<"p","o","s","t","g","r","e","s">>
RequireSSL == <<"r","e","q","u","i","r","e">>

\* the text before and after the first separator (strings.Cut), and from
\* the first separator on
CutBefore(text, sep) ==
    LET at == Index(text, sep) IN IF at = -1 THEN text ELSE SliceTo(text, at)
CutAfter(text, sep) ==
    LET at == Index(text, sep)
    IN  IF at = -1 THEN <<>> ELSE SliceFrom(text, at + Len(sep))
CutFrom(text, sep) ==
    LET at == Index(text, sep) IN IF at = -1 THEN <<>> ELSE SliceFrom(text, at)

\* the parts of an authority userinfo@host:port
Userinfo(authority) ==
    LET at == LastIndex(authority, <<"@">>)
    IN  IF at = -1 THEN <<>> ELSE SliceTo(authority, at)
HostPort(authority) ==
    SliceFrom(authority, LastIndex(authority, <<"@">>) + 1)
Hostname(hostport) ==
    LET at == LastIndex(hostport, <<":">>)
    IN  IF at = -1 THEN hostport ELSE SliceTo(hostport, at)
Port(hostport) ==
    LET at == LastIndex(hostport, <<":">>)
    IN  IF at = -1 THEN <<>> ELSE SliceFrom(hostport, at + 1)

\* a port is a number
AllDigits(text) == \A i \in 1..Len(text) : text[i] \in Digits

\* url.Parse on scheme://userinfo@host:port/path?query, with the accessors
\* Hostname, Port, User.Username, User.Password, Path and RawQuery; a port
\* that is not a number is a parse error
Authority(urlStr) ==
    CutBefore(CutAfter(CutBefore(urlStr, <<"?">>), <<":","/","/">>), <<"/">>)
Parse(urlStr) ==
    [err         |-> ~AllDigits(Port(HostPort(Authority(urlStr)))),
     host        |-> Hostname(HostPort(Authority(urlStr))),
     port        |-> Port(HostPort(Authority(urlStr))),
     username    |-> CutBefore(Userinfo(Authority(urlStr)), <<":">>),
     password    |-> CutAfter(Userinfo(Authority(urlStr)), <<":">>),
     hasPassword |-> ContainsText(Userinfo(Authority(urlStr)), <<":">>),
     path        |-> CutFrom(CutAfter(CutBefore(urlStr, <<"?">>), <<":","/","/">>), <<"/">>),
     rawQuery    |-> CutAfter(urlStr, <<"?">>)]

\* url.Values.Get: the value of the first key=value pair with the key
QueryGet(rawQuery, key) ==
    LET pairs == SplitText(rawQuery, <<"&">>)
        hits  == {i \in 1..Len(pairs) : HasPrefix(pairs[i], key \o <<"=">>)}
    IN  IF hits = {} THEN <<>>
        ELSE TrimPrefix(pairs[CHOOSE i \in hits : \A j \in hits : i <= j],
                        key \o <<"=">>)

\* a validated connection string, or the failure
Normalized(connStr) == [err |-> FALSE, connStr |-> connStr]
Invalid == [err |-> TRUE, connStr |-> <<>>]

normalizeURLConnectionString(urlStr) ==
    LET parsedURL == Parse(urlStr)
        port      == IF parsedURL.port = <<>> THEN DefaultURLPort
                     ELSE parsedURL.port
        dbname    == TrimPrefix(parsedURL.path, <<"/">>)
        sslmode   == IF QueryGet(parsedURL.rawQuery, <<"s","s","l","m","o","d","e">>) = <<>>
                     THEN RequireSSL
                     ELSE QueryGet(parsedURL.rawQuery, <<"s","s","l","m","o","d","e">>)
    IN  IF parsedURL.err THEN Invalid
        ELSE IF parsedURL.host = <<>> THEN Invalid
        ELSE IF parsedURL.username = <<>> THEN Invalid
        ELSE IF ~parsedURL.hasPassword THEN Invalid
        ELSE IF dbname = <<>> THEN Invalid
        ELSE Normalized(<<"h","o","s","t","=">> \o parsedURL.host \o <<" ","p","o","r","t","=">> \o port
                        \o <<" ","u","s","e","r","=">> \o parsedURL.username
                        \o <<" ","p","a","s","s","w","o","r","d","=">> \o parsedURL.password
                        \o <<" ","d","b","n","a","m","e","=">> \o dbname \o <<" ","s","s","l","m","o","d","e","=">> \o sslmode)

normalizeKeyValueConnectionString(connStr) ==
    IF ~ContainsText(connStr, <<"h","o","s","t","=">>) THEN Invalid
    ELSE IF ~ContainsText(connStr, <<"u","s","e","r","=">>) THEN Invalid
    ELSE IF ~ContainsText(connStr, <<"d","b","n","a","m","e","=">>)
            /\ ~ContainsText(connStr, <<"d","a","t","a","b","a","s","e","=">>) THEN Invalid
    ELSE IF ~ContainsText(connStr, <<"s","s","l","m","o","d","e","=">>)
    THEN Normalized(connStr \o <<" ","s","s","l","m","o","d","e","=","r","e","q","u","i","r","e">>)
    ELSE Normalized(connStr)

normalizeConnectionString(connStr) ==
    LET trimmed == TrimSpace(connStr)
    IN  IF trimmed = <<>> THEN Invalid
        ELSE IF HasPrefix(trimmed, <<"p","o","s","t","g","r","e","s",":","/","/">>)
                \/ HasPrefix(trimmed, <<"p","o","s","t","g","r","e","s","q","l",":","/","/">>)
        THEN normalizeURLConnectionString(trimmed)
        ELSE normalizeKeyValueConnectionString(trimmed)

\* the connection string main hands to gorm.Open, or the exit
ConnectionString(environ) ==
    LET url      == IF getEnv(environ, "DATABASE_URL", <<>>) = <<>>
                    THEN getEnv(environ, "SUPABASE_DB_URL", <<>>)
                    ELSE getEnv(environ, "DATABASE_URL", <<>>)
        host     == getEnv(environ, "SUPABASE_DB_HOST", <<>>)
        port     == getEnv(environ, "SUPABASE_DB_PORT", PoolerPort)
        user     == getEnv(environ, "SUPABASE_DB_USER", <<>>)
        password == getEnv(environ, "SUPABASE_DB_PASSWORD", <<>>)
        dbname   == getEnv(environ, "SUPABASE_DB_NAME", DefaultDBName)
    IN  IF url = <<>>
        THEN IF host = <<>> \/ user = <<>> \/ password = <<>> THEN Invalid
             ELSE Normalized(<<"h","o","s","t","=">> \o host \o <<" ","u","s","e","r","=">> \o user
                             \o <<" ","p","a","s","s","w","o","r","d","=">> \o password \o <<" ","d","b","n","a","m","e","=">> \o dbname
                             \o <<" ","p","o","r","t","=">> \o port \o <<" ","s","s","l","m","o","d","e","=","r","e","q","u","i","r","e">>)
        ELSE normalizeConnectionString(url)

\* the environments the process is started in
ConnectionURLs ==
    { Unset,
      Set(<<"p","o","s","t","g","r","e","s",":","/","/","u","s","e","r",":","p","a","s","s","w","o","r","d","@","d","b",".","e","x","a","m","p","l","e",".","c","o","m",":","5","4","3","2","/","a","p","p","?","s","s","l","m","o","d","e","=","r","e","q","u","i","r","e">>),
      Set(<<"p","o","s","t","g","r","e","s",":","/","/","u","s","e","r",":","p","a","s","s","w","o","r","d","@","d","b",".","e","x","a","m","p","l","e",".","c","o","m",":","6","5","4","3","/","a","p","p">>),
      Set(<<"p","o","s","t","g","r","e","s","q","l",":","/","/","u","s","e","r",":","p","a","s","s","w","o","r","d","@","d","b",".","e","x","a","m","p","l","e",".","c","o","m","/","a","p","p">>),
      Set(<<"p","o","s","t","g","r","e","s",":","/","/","u","s","e","r","@","d","b",".","e","x","a","m","p","l","e",".","c","o","m",":","5","4","3","2","/","a","p","p">>),
      Set(<<"h","o","s","t","=","d","b",".","e","x","a","m","p","l","e",".","c","o","m"," ","u","s","e","r","=","u","s","e","r"," ","d","b","n","a","m","e","=","a","p","p"," ","p","o","r","t","=","6","5","4","3">>) }
Environments ==
    [ DATABASE_URL         : ConnectionURLs,
      SUPABASE_DB_URL      : {Unset, Set(<<"p","o","s","t","g","r","e","s",":","/","/","u","s","e","r",":","p","a","s","s","w","o","r","d","@","d","b",".","e","x","a","m","p","l","e",".","c","o","m",":","6","5","4","3","/","a","p","p">>)},
      SUPABASE_DB_HOST     : {Unset, Set(<<"d","b",".","e","x","a","m","p","l","e",".","c","o","m">>)},
      SUPABASE_DB_PORT     : {Unset, Set(<<"5","4","3","2">>), Set(<<"6","5","4","3">>)},
      SUPABASE_DB_USER     : {Unset, Set(<<"u","s","e","r">>)},
      SUPABASE_DB_PASSWORD : {Unset, Set(<<>>), Set(<<"p","a","s","s","w","o","r","d">>)},
      SUPABASE_DB_NAME     : {Unset, Set(<<"a","p","p">>)} ]

\* what gorm.Open answers: the database is reachable or it is not
OpenResults == {"open", "unreachable"}

\* the process starts: godotenv.Load has filled the environment
main_Load ==
    /\ startup = NoStartup
    /\ pc = "idle"
    /\ \E environ \in Environments :
          startup' = [NoStartup EXCEPT !.step = "loaded", !.environ = environ]
    /\ UNCHANGED <<env, dotenv, shutdown, compose, republish, pc, peVars, httpVars>>

\* the connection string is chosen and validated, or the process exits
main_ConnectionString ==
    /\ startup.step = "loaded"
    /\ LET chosen == ConnectionString(startup.environ)
       IN  startup' = IF chosen.err
                      THEN [startup EXCEPT !.step = "exited", !.status = 1]
                      ELSE [startup EXCEPT !.step = "connecting",
                                           !.connStr = chosen.connStr]
    /\ UNCHANGED <<env, dotenv, shutdown, compose, republish, pc, peVars, httpVars>>

\* gorm.Open with the connection string
main_Open ==
    /\ startup.step = "connecting"
    /\ \E opened \in OpenResults :
          startup' = IF opened = "open"
                     THEN [startup EXCEPT !.step = "opened"]
                     ELSE [startup EXCEPT !.step = "exited", !.status = 1]
    /\ UNCHANGED <<env, dotenv, shutdown, compose, republish, pc, peVars, httpVars>>

\* the process is gone; it may be started again
main_End ==
    /\ startup.step \in {"opened", "exited"}
    /\ startup' = NoStartup
    /\ UNCHANGED <<env, dotenv, shutdown, compose, republish, pc, peVars, httpVars>>

NextStartup ==
    \/ main_Load
    \/ main_ConnectionString
    \/ main_Open
    \/ main_End

SpecStartup == InitCompose /\ [][NextStartup]_vars

(***************************************************************************)
(* main from errChannel to the exit of the process, with the goroutines    *)
(* server.Start and listenToInterrupt.  errChannel is unbuffered: a send   *)
(* and main's receive are one step; a sender stays at its send until then. *)
(***************************************************************************)
Senders == {"Start", "listenToInterrupt"}

\* a step of main or of a goroutine of the running process
Step(next) ==
    /\ shutdown.process = "running"
    /\ shutdown' = next
    /\ UNCHANGED <<env, dotenv, compose, republish, startup, pc, peVars, httpVars>>

\* errChannel := make(chan error); defer close(errChannel)
main_MakeChannel ==
    /\ shutdown.main = "make"
    /\ Step([shutdown EXCEPT !.main = "NewServer", !.errChannel = "open"])

\* api.NewServer: on an error main leaves through os.Exit(1), which runs no
\* deferred call
main_NewServer ==
    /\ shutdown.main = "NewServer"
    /\ \E failed \in BOOLEAN :
          Step(IF failed
               THEN [shutdown EXCEPT !.main = "exited", !.process = "exited"]
               ELSE [shutdown EXCEPT !.main = "go Start"])

\* go server.Start(errChannel)
main_GoStart ==
    /\ shutdown.main = "go Start"
    /\ Step([shutdown EXCEPT !.main = "go listenToInterrupt",
                             !.Start = "ListenAndServe"])

\* go listenToInterrupt(errChannel)
main_GoListenToInterrupt ==
    /\ shutdown.main = "go listenToInterrupt"
    /\ Step([shutdown EXCEPT !.main = "receive", !.listenToInterrupt = "Notify"])

\* fatalErr := <-errChannel, together with the send it receives from
main_Receive ==
    /\ shutdown.main = "receive"
    /\ \E sender \in Senders :
          /\ shutdown[sender] = "send"
          /\ Step([shutdown EXCEPT !.main = "ShutdownGracefully",
                                   !.fatalErr = shutdown.sent[sender],
                                   ![sender] = "returned"])

\* server.ShutdownGracefully calls Shutdown: from then on ListenAndServe
\* returns ErrServerClosed and no connection is accepted
main_ShutdownGracefully ==
    /\ shutdown.main = "ShutdownGracefully"
    /\ Step([shutdown EXCEPT !.main = "Shutdown", !.closing = TRUE])

\* Shutdown returns: nil once no connection is active, the context's error
\* when the timeout ends the wait before
main_Shutdown ==
    /\ shutdown.main = "Shutdown"
    /\ Step([shutdown EXCEPT !.main = "return"])

\* the serving ListenAndServe accepts a connection
Server_Accept ==
    /\ shutdown.Start = "ListenAndServe"
    /\ ~shutdown.closing
    /\ shutdown.active < MaxConnections
    /\ Step([shutdown EXCEPT !.active = @ + 1])

\* a connection has been served
Server_Served ==
    /\ shutdown.active > 0
    /\ Step([shutdown EXCEPT !.active = @ - 1])

\* main returns: the deferred close(errChannel) runs
main_Close ==
    /\ shutdown.main = "return"
    /\ Step([shutdown EXCEPT !.main = "exit", !.errChannel = "closed"])

\* the process ends with main, whatever the goroutines are at
main_Exit ==
    /\ shutdown.main = "exit"
    /\ Step([shutdown EXCEPT !.main = "exited", !.process = "exited"])

\* Server.Start: ListenAndServe returns, with ErrServerClosed once Shutdown
\* was called and with the listener's error before
Start_ListenAndServe ==
    /\ shutdown.Start = "ListenAndServe"
    /\ Step([shutdown EXCEPT
                !.Start = "send",
                !.sent.Start = IF shutdown.closing THEN "http: Server closed"
                               ELSE "listen tcp: address already in use"])

\* a send on the closed channel, begun before the close or after it, panics
SendOnClosed(sender) ==
    /\ shutdown[sender] = "send"
    /\ shutdown.errChannel = "closed"
    /\ Step([shutdown EXCEPT ![sender] = "panic", !.process = "panicked"])

Start_Send == SendOnClosed("Start")

\* listenToInterrupt: signal.Notify(c, SIGINT, SIGTERM)
listenToInterrupt_Notify ==
    /\ shutdown.listenToInterrupt = "Notify"
    /\ Step([shutdown EXCEPT !.listenToInterrupt = "wait"])

\* <-c: a signal arrives
listenToInterrupt_Signal ==
    /\ shutdown.listenToInterrupt = "wait"
    /\ \E sig \in {"interrupt", "terminated"} :
          Step([shutdown EXCEPT !.listenToInterrupt = "send",
                               !.sent.listenToInterrupt = sig])

listenToInterrupt_Send == SendOnClosed("listenToInterrupt")

NextShutdown ==
    \/ main_MakeChannel
    \/ main_NewServer
    \/ main_GoStart
    \/ main_GoListenToInterrupt
    \/ main_Receive
    \/ main_ShutdownGracefully
    \/ main_Shutdown
    \/ Server_Accept
    \/ Server_Served
    \/ main_Close
    \/ main_Exit
    \/ Start_ListenAndServe
    \/ Start_Send
    \/ listenToInterrupt_Notify
    \/ listenToInterrupt_Signal
    \/ listenToInterrupt_Send

SpecShutdown == InitCompose /\ [][NextShutdown]_vars

(***************************************************************************)
(* Properties of the fan-out (checked under SpecFanOut).                   *)
(***************************************************************************)
\* a name in lower case
ToLower(s) == [i \in 1..Len(s) |-> FoldChar(s[i])]

\* the platform's name occurs in the selection, case-insensitively
Selected(p) ==
    \E i \in 1..Len(args.platformsToPost) :
        ToLower(args.platformsToPost[i]) = PlatformName(p)

\* the calls of publisher p so far in this PostEverywhere call
Calls(p) == {i \in 1..Len(trace) : trace[i].ev = "call" /\ trace[i].p = p}
Returns(p) == {i \in 1..Len(trace) : trace[i].ev = "return" /\ trace[i].p = p}
Called == {p \in {Platforms[k] : k \in 1..4} : Calls(p) # {}}

\* positions of the thread of control, in program order
Positions == <<"substack", "PostToSubstack", "medium", "PostToMedium",
               "twitter", "PostToTwitter", "linkedin", "PostToLinkedIn",
               "summary", "returned">>
Position == IF pc \in {Positions[i] : i \in 1..Len(Positions)}
            THEN CHOOSE i \in 1..Len(Positions) : Positions[i] = pc
            ELSE 0
\* the k-th platform's block is behind the thread of control
Past(k) == Position > 2 * k

\* the publisher of p is to be invoked in this call
Wanted(p) == Selected(p) /\ (p = "Substack" => args.mainImageURL # <<>>)

\* C1: a publisher is never invoked unless its platform's name occurs,
\* compared case-insensitively, in platformsToPost; a selection of only
\* "twitter" invokes none of the Substack, Medium and LinkedIn publishers.
C1_SelectionScoped ==
    /\ \A p \in Called : Selected(p)
    /\ args.platformsToPost = <<NameTwitter>> => Called \subseteq {"Twitter"}

C1_Witness ==
    /\ pc = "returned"
    /\ args.platformsToPost = <<NameTwitter>>
    /\ Called = {"Twitter"}

\* C2: whatever earlier platforms failed, every later platform of the
\* selection is attempted, exactly once: once a platform's block is behind,
\* its publisher has been called once if it was to be invoked, never twice.
C2_FailuresIndependent ==
    \A k \in 1..4 :
        /\ Cardinality(Calls(Platforms[k])) <= 1
        /\ Past(k) /\ Wanted(Platforms[k]) => Cardinality(Calls(Platforms[k])) = 1

C2_Witness ==
    /\ pc = "returned"
    /\ \E a \in 1..3 : \E b \in (a + 1)..4 :
          /\ \E i \in Returns(Platforms[a]) : ~trace[i].err.nil
          /\ \E i \in Returns(Platforms[b]) : trace[i].err.nil
          /\ Cardinality(Calls(Platforms[b])) = 1

\* the failure of platform p in this call: the error its publisher returned,
\* or the missing main image of a selected Substack
Failure(p) ==
    IF p = "Substack" /\ Selected(p) /\ args.mainImageURL = <<>>
    THEN Errorf(<<"mainImageURL is required but not provided">>)
    ELSE IF Returns(p) # {} THEN trace[CHOOSE i \in Returns(p) : TRUE].err
    ELSE Nil

\* "<Platform>: <reason>" for the failed platforms among the k first, in
\* fan-out order, "; " between two entries
RECURSIVE FailureText(_)
FailureText(k) ==
    IF k = 0 THEN <<>>
    ELSE LET p == Platforms[k]
             before == FailureText(k - 1)
         IN  IF Failure(p).nil THEN before
             ELSE (IF before = <<>> THEN <<>> ELSE before \o <<"; ">>)
                      \o <<p, ": ">> \o Failure(p).text

\* C3: PostEverywhere returns nil iff no platform failed; otherwise one error
\* whose text holds exactly one entry "<Platform>: <reason>" per failed
\* platform, in fan-out order, joined by "; ", and no other entry.
C3_AggregatedError ==
    pc = "returned" =>
        /\ result.nil <=> \A k \in 1..4 : Failure(Platforms[k]).nil
        /\ ~result.nil =>
              result.text = <<"some platforms failed: ">> \o FailureText(4)

C3_Witness ==
    /\ pc = "returned"
    /\ ~result.nil
    /\ Cardinality({k \in 1..4 : ~Failure(Platforms[k]).nil}) = 2
    /\ \E k \in 1..4 : Returns(Platforms[k]) # {} /\ Failure(Platforms[k]).nil

\* C4: with an empty (or nil) selection PostEverywhere invokes no publisher,
\* records no failure and returns nil, for every post, tag list and image URL.
C4_EmptySelectionNoOp ==
    args.platformsToPost = <<>> /\ pc # "idle" =>
        /\ trace = <<>>
        /\ errors = <<>>
        /\ pc = "returned" => result = Nil

C4_Witness ==
    /\ pc = "returned"
    /\ args.platformsToPost = <<>>
    /\ args.mainImageURL = <<>>
    /\ args.tags # <<>>
    /\ result = Nil

\* the platforms of the events of the trace, in order of their first event
PlatformIndex(p) == CHOOSE k \in 1..4 : Platforms[k] = p

\* C5: the selected publishers run one after another in the order Substack,
\* Medium, Twitter, LinkedIn whatever the order of the selection: every call
\* is followed by its own return before the next call, calls follow the
\* fan-out order, a publisher runs only while the thread of control is in
\* it, and PostEverywhere returns only after every publisher it had to
\* invoke has returned.
C5_SequentialFixedOrder ==
    /\ \A i \in 1..Len(trace) :
          IF i % 2 = 1
          THEN /\ trace[i].ev = "call"
               /\ i > 2 => PlatformIndex(trace[i - 2].p) < PlatformIndex(trace[i].p)
          ELSE trace[i].ev = "return" /\ trace[i].p = trace[i - 1].p
    /\ Len(trace) % 2 = 1 <=>
          pc \in {"PostToSubstack", "PostToMedium", "PostToTwitter", "PostToLinkedIn"}
    /\ Len(trace) % 2 = 1 => pc = Positions[2 * PlatformIndex(trace[Len(trace)].p)]
    /\ pc = "returned" =>
          \A k \in 1..4 : Wanted(Platforms[k]) => Returns(Platforms[k]) # {}

C5_Witness ==
    /\ pc = "returned"
    /\ args.platformsToPost = <<NameLinkedIn, NameSubstack>>
    /\ Len(trace) = 4
    /\ trace[1].p = "Substack"
    /\ trace[3].p = "LinkedIn"

\* C6: with Substack selected and an empty main image URL, PostToSubstack is
\* not called and no request is sent for it, one failure entry for Substack
\* is recorded, and the other selected platforms are still attempted.
C6_SubstackFailsFast ==
    Selected("Substack") /\ args.mainImageURL = <<>> =>
        /\ Calls("Substack") = {}
        /\ Returns("Substack") = {}
        /\ Past(1) =>
              /\ errors # <<>>
              /\ errors[1] = <<"Substack", ": ", "mainImageURL is required but not provided">>
              /\ \A i \in 2..Len(errors) : errors[i][1] # "Substack"
        /\ \A k \in 2..4 :
              Past(k) /\ Selected(Platforms[k]) => Cardinality(Calls(Platforms[k])) = 1

C6_Witness ==
    /\ pc = "returned"
    /\ Selected("Substack")
    /\ args.mainImageURL = <<>>
    /\ Selected("Twitter")
    /\ Calls("Twitter") # {}
    /\ Len(errors) = 1

(***************************************************************************)
(* Properties of the HTTP layer (checked under Spec).                      *)
(***************************************************************************)
\* the followed create request has passed its insert and is not answered yet
InFlight == pc # "idle"
\* the followed create request has called PostEverywhere
Publishing == pc \notin {"idle", "inserted"}
Created == [handler |-> "createBlogPost", status |-> StatusCreated]

C8_PublishedPostNotEmpty ==
    published > 0 => args.blogPost.Title # "" /\ args.blogPost.Content # ""

\* C9 as stated: a create request that is answered has called
\* PostEverywhere once if its insert succeeded, and not at all otherwise.
C9_OncePerPersistedCreate ==
    pc = "idle" /\ answered # NoAnswer =>
        published = (IF req.inserted THEN 1 ELSE 0)

\* the count of PostEverywhere calls of the followed request
C9_Count ==
    /\ published \in {0, 1}
    /\ published = 1 <=> Publishing \/ (pc = "idle" /\ answered = Created)
    /\ published = 1 => req.inserted /\ args # NoArgs
    /\ published = 0 => args = NoArgs /\ trace = <<>>
\* the steps that change the count: the call made after the reload, and the
\* start of the next create request
C9_Step ==
    published' # published =>
        \/ pc = "inserted" /\ pc' = Stages[1] /\ published' = published + 1
        \/ pc = "idle" /\ published' = 0 /\ args' = NoArgs

\* C9: PostEverywhere is called exactly once by each create request whose
\* insert and reload succeeded, and by nothing else: not by a create request
\* that was rejected or whose insert or reload failed, not by the get, update
\* and delete endpoints of blog posts, not by the project endpoints.
C9_OncePerReloadedCreate ==
    []C9_Count /\ [][C9_Step]_vars

C9_Witness ==
    /\ pc = "idle"
    /\ req.inserted
    /\ published = 1
    /\ answered = Created
    /\ ~blogPosts[req.blogPost.ID].exists
    /\ \E id \in ProjectIDs : projects[id]

\* the four platform names, in lower case
AllFour == [k \in 1..4 |-> PlatformName(Platforms[k])]

\* C10: a create request without a "platforms" parameter passes the
\* selection substack, medium, twitter, linkedin to PostEverywhere.
C10_AbsentMeansAllFour ==
    published > 0 /\ "platforms" \notin DOMAIN req.query =>
        /\ args.platformsToPost = AllFour
        /\ \A k \in 1..4 : Selected(Platforms[k])

C10_Witness ==
    /\ pc = "idle"
    /\ published = 1
    /\ "platforms" \notin DOMAIN req.query
    /\ Called = {Platforms[k] : k \in 1..4}

\* C11: a create request whose "platforms" parameter is present with an
\* empty value selects no platform: no publisher is invoked for it.
C11_EmptyParamSelectsNone ==
    /\ published > 0
    /\ "platforms" \in DOMAIN req.query
    /\ req.query["platforms"] = <<>>
    => args.platformsToPost = <<>> /\ trace = <<>>

(***************************************************************************)
(* Properties of the text functions (checked under SpecCompose).           *)
(***************************************************************************)
Returned(op) == compose.op = op /\ compose.done

\* C12: the text buildTwitterPostText returns has effective length at most
\* 280, URLs counted as 23 characters, for every post, tag list and base URL.
C12_WithinTwitterLimit ==
    Returned("buildTwitterPostText") =>
        calculateTwitterLength(compose.out) <= TwitterLimit

\* the texts of a list that are not empty, with a blank line between two
RECURSIVE BlankLineJoined(_)
BlankLineJoined(parts) ==
    IF parts = <<>> THEN <<>>
    ELSE LET rest == BlankLineJoined(Tail(parts))
         IN  IF Head(parts) = <<>> THEN rest
             ELSE IF rest = <<>> THEN Head(parts)
             ELSE Head(parts) \o <<"\n", "\n">> \o rest

\* the first-pass candidate of the followed call: title, summary or else
\* content (cut to 150), the post's URL or else its permalink, hashtags
Candidate ==
    LET blogPost == compose.in.blogPost
        summary == IF blogPost.Summary.nil THEN <<>> ELSE blogPost.Summary.val
        url == IF blogPost.URL.nil THEN <<>> ELSE blogPost.URL.val
    IN  BlankLineJoined(<<
            blogPost.Title,
            TruncateAtSentence(IF summary # <<>> THEN summary ELSE blogPost.Content,
                               maxSummaryLength),
            IF url # <<>> THEN url
            ELSE BuildBlogPostURL(compose.in.baseURL, blogPost.ID),
            JoinTexts(Hashtags(compose.in.tags, 4), <<" ">>)>>)

\* C13: when the first-pass candidate has effective length at most 280,
\* buildTwitterPostText returns exactly that text.
C13_ShortCandidateUnchanged ==
    Returned("buildTwitterPostText")
        /\ calculateTwitterLength(Candidate) <= TwitterLimit
    => compose.out = Candidate

C13_Witness ==
    /\ Returned("buildTwitterPostText")
    /\ calculateTwitterLength(Candidate) <= TwitterLimit
    /\ Len(Candidate) > calculateTwitterLength(Candidate)
    /\ compose.in.blogPost.Title # <<>>
    /\ Len(compose.in.blogPost.Summary.val) > maxSummaryLength
    /\ Len(Hashtags(compose.in.tags, 4)) > Len(Hashtags(compose.in.tags, 3))
    /\ compose.out = Candidate

\* the characters a hashtag may hold
HashtagAlphabet == {LowerCase[i] : i \in 1..26} \cup Digits \cup {"_"}
\* the input of the followed call without the characters that are neither
\* ASCII letters, digits nor underscores
Filtered == SelectSeq(compose.in.text, IsHashtagRune)

\* C14: FormatHashtag returns only characters of [a-z0-9_], never a digit
\* first, and the empty text for a blank input or one whose filtered form
\* starts with a digit.
C14_HashtagAlphabet ==
    Returned("FormatHashtag") =>
        /\ \A i \in 1..Len(compose.out) : compose.out[i] \in HashtagAlphabet
        /\ compose.out # <<>> => compose.out[1] \notin Digits
        /\ (\A i \in 1..Len(compose.in.text) : compose.in.text[i] \in WhiteSpace)
               => compose.out = <<>>
        /\ (Filtered # <<>> /\ Filtered[1] \in Digits) => compose.out = <<>>

\* C15: FormatHashtag applied to its own result gives that result again.
C15_Idempotent ==
    Returned("FormatHashtag") => FormatHashtag(compose.out) = compose.out

C15_Witness ==
    /\ Returned("FormatHashtag")
    /\ compose.out # <<>>
    /\ compose.out # compose.in.text
    /\ \E i \in 1..Len(compose.out) : compose.out[i] \in Digits
    /\ FormatHashtag(compose.out) = compose.out

\* the permalink of a post under a base URL that ends in no "/"
Permalink(base, postID) == base \o <<"/", "b", "l", "o", "g", "/">> \o postID

\* C16: BuildBlogPostURL returns the empty text when an argument is empty;
\* otherwise the base URL without one trailing "/", then "/blog/", then the
\* post id, so a base URL gives the same permalink with one "/" appended.
C16_Permalink ==
    Returned("BuildBlogPostURL") =>
        LET baseURL == compose.in.baseURL
            postID == compose.in.text
            n == Len(baseURL)
        IN  IF baseURL = <<>> \/ postID = <<>> THEN compose.out = <<>>
            ELSE /\ compose.out =
                       Permalink(IF baseURL[n] = "/" THEN SubSeq(baseURL, 1, n - 1)
                                 ELSE baseURL, postID)
                 /\ BuildBlogPostURL(baseURL \o <<"/">>, postID) =
                       Permalink(baseURL, postID)

C16_Witness ==
    /\ Returned("BuildBlogPostURL")
    /\ compose.in.text # <<>>
    /\ Len(compose.in.baseURL) > 2
    /\ compose.in.baseURL[Len(compose.in.baseURL)] = "/"
    /\ compose.in.baseURL[Len(compose.in.baseURL) - 1] = "/"
    /\ compose.out = Permalink(SubSeq(compose.in.baseURL, 1,
                                      Len(compose.in.baseURL) - 1), compose.in.text)

Composers == {"buildTwitterPostText", "buildLinkedInPostText", "buildSubstackHtml"}

\* the composer op applied to an input
Composed(op, in) ==
    CASE op = "buildTwitterPostText" ->
            buildTwitterPostText(in.blogPost, in.tags, in.baseURL)
      [] op = "buildLinkedInPostText" ->
            buildLinkedInPostText(in.blogPost, in.tags, in.baseURL)
      [] op = "buildSubstackHtml" ->
            buildSubstackHtml(in.blogPost, in.tags, in.imageURL, in.baseURL)

\* the input with an empty text in place of each missing optional field
MissingAsEmpty(in) ==
    [in EXCEPT !.blogPost.Summary = StringPtr(in.blogPost.Summary.val),
               !.blogPost.URL = StringPtr(in.blogPost.URL.val)]

Occurs(text, pattern) ==
    \E i \in 0..(Len(text) - Len(pattern)) : OccursAt(text, pattern, i)

\* C17: the composers return a text for every post, tag list and base URL,
\* no slice expression of theirs being out of range; a missing summary or
\* URL gives the text an empty one gives, without tags the text holds no
\* hashtag, and without any URL it holds no link to the post.
C17_ComposersNeverFail ==
    compose.done /\ compose.op \in Composers =>
        /\ \A i \in 1..Len(compose.out) : compose.out[i] # Panic
        /\ compose.out = Composed(compose.op, MissingAsEmpty(compose.in))
        /\ compose.in.tags = <<>> => ~Occurs(compose.out, <<"#">>)
        /\ compose.in.blogPost.URL.val = <<>> /\ compose.in.baseURL = <<>>
              => /\ ~Occurs(compose.out, <<"/", "b", "l", "o", "g", "/">>)
                 /\ ~Occurs(compose.out, <<"R", "e", "a", "d", " ", "m", "o", "r", "e">>)
                 /\ ~Occurs(compose.out, <<"h", "r", "e", "f">>)

C17_Witness ==
    /\ Returned("buildTwitterPostText")
    /\ compose.in.blogPost.Summary.nil
    /\ compose.in.blogPost.URL.nil
    /\ compose.in.baseURL = <<>>
    /\ compose.in.tags = <<>>
    /\ Len(compose.in.blogPost.Title) > TwitterLimit
    /\ Len(compose.in.blogPost.Content) > TwitterLimit
    /\ Len(compose.out) = TwitterLimit

(***************************************************************************)
(* Republishing (checked under SpecRepublish).                             *)
(***************************************************************************)
\* C18: when PostEverywhere has been called twice with the same post, tags
\* and selection, every publisher the selection asks for has been invoked
\* once in each call, twice in total, and the others not at all; the second
\* call starts with no failure entry and no success of the first.
C18_RepublishedTwice ==
    /\ republish.calls = 2 /\ Position = 1 =>
          errors = <<>> /\ successes = <<>> /\ trace = <<>>
    /\ republish.calls = 2 /\ pc = "returned" =>
          \A k \in 1..4 :
              /\ republish.invoked[k] = Invocations[k]
              /\ republish.invoked[k] + Invocations[k] =
                    IF Wanted(Platforms[k]) THEN 2 ELSE 0

C18_Witness ==
    /\ republish.calls = 2
    /\ pc = "returned"
    /\ republish.invoked = <<0, 1, 0, 1>>
    /\ Invocations = <<0, 1, 0, 1>>
    /\ successes = <<"Medium", "LinkedIn">>

(***************************************************************************)
(* Authentication of the routes (checked under Spec).                      *)
(***************************************************************************)
\* C19: a request whose Authorization header is not "Bearer " followed by
\* a non-empty value never reaches the blog-post handler: it inserts
\* nothing and is answered as unauthorized.
C19_HandlersBehindAuthentication ==
    authenticate(req.authorization) # 0 /\ req # NoRequest =>
        /\ ~req.inserted
        /\ answered = [handler |-> "authenticate", status |-> StatusUnauthorized]

(***************************************************************************)
(* The database port at startup (checked under SpecStartup).               *)
(***************************************************************************)
\* every port the connection string names is 5432
DirectPortOnly(connStr) ==
    \A i \in 0..Len(connStr) :
        OccursAt(connStr, <<"p","o","r","t","=">>, i) =>
            /\ OccursAt(connStr, <<"p","o","r","t","=","5","4","3","2">>, i)
            /\ (i + 9 = Len(connStr) \/ connStr[i + 10] = " ")

\* C20: main reaches gorm.Open only with a connection string whose port is
\* 5432: a SUPABASE_DB_PORT or a port inside DATABASE_URL / SUPABASE_DB_URL
\* other than 5432 makes the process exit first, and an unset
\* SUPABASE_DB_PORT gives port 5432.
C20_DirectPortOrExit ==
    startup.step \in {"connecting", "opened"} => DirectPortOnly(startup.connStr)

(***************************************************************************)
(* The cut of a long body (checked under SpecCompose).                     *)
(***************************************************************************)
\* the cut the rule describes: the first maxLength characters, ended after
\* their last period at an index of least or more when there is one
CutRule(text, maxLength, least) ==
    IF Len(text) <= maxLength THEN text
    ELSE LET periods == {i \in least..(maxLength - 1) : text[i + 1] = "."}
         IN  IF periods = {} THEN SubSeq(text, 1, maxLength) \o Ellipsis
             ELSE SubSeq(text, 1, 1 + CHOOSE i \in periods :
                                          \A j \in periods : j <= i)
                      \o Ellipsis

\* the body a composer cuts, and the length it cuts at
Body(call) ==
    IF call.op = "buildTwitterPostText"
          /\ ~call.in.blogPost.Summary.nil /\ call.in.blogPost.Summary.val # <<>>
    THEN call.in.blogPost.Summary.val
    ELSE call.in.blogPost.Content
BodyLimit(call) ==
    IF call.op = "buildTwitterPostText" THEN maxSummaryLength ELSE maxContentLength

\* a composer has returned the text of a post that has a body and nothing
\* else: no title, no URL, no tags (and, for LinkedIn, no summary)
BodyOnly ==
    /\ compose.done
    /\ compose.op \in {"buildTwitterPostText", "buildLinkedInPostText"}
    /\ compose.in.blogPost.Title = <<>>
    /\ compose.in.blogPost.URL.nil \/ compose.in.blogPost.URL.val = <<>>
    /\ compose.in.baseURL = <<>>
    /\ compose.in.tags = <<>>
    /\ compose.op = "buildLinkedInPostText" =>
          compose.in.blogPost.Summary.nil \/ compose.in.blogPost.Summary.val = <<>>

Blank(text, i) == text[i + 1] \in {" ", "\n", "\t"}
URLAt(text, i) == OccursAt(text, urlPatterns[1], i) \/ OccursAt(text, urlPatterns[2], i)
SpanStarts(text) ==
    {i \in 0..(Len(text) - 1) :
        /\ URLAt(text, i)
        /\ \A j \in 0..(i - 1) :
              URLAt(text, j) => \E k \in j..(i - 1) : Blank(text, k)}
SpanEnd(text, i) ==
    LET blanks == {k \in i..(Len(text) - 1) : Blank(text, k)}
    IN  IF blanks = {} THEN Len(text)
        ELSE CHOOSE k \in blanks : \A m \in blanks : k <= m
InSpan(text, k) ==
    \E i \in SpanStarts(text) : i <= k /\ k < SpanEnd(text, i)

\* what the spans longer than 23 characters have above 23, summed
RECURSIVE Discount(_, _)
Discount(text, starts) ==
    IF starts = {} THEN 0
    ELSE LET i == CHOOSE s \in starts : TRUE
             length == SpanEnd(text, i) - i
         IN  (IF length > TwitterURLLength THEN length - TwitterURLLength ELSE 0)
                 + Discount(text, starts \ {i})

\* C22: calculateTwitterLength(text) is the length of the text with every
\* URL span longer than 23 characters counted as 23, each span discounted
\* exactly once; shorter spans count at their length.
C22_EachURLCountedAs23 ==
    Returned("calculateTwitterLength") =>
        compose.out = Len(compose.in.text)
                        - Discount(compose.in.text, SpanStarts(compose.in.text))

\* the characters of a text outside every URL span
OutsideSpans(text) ==
    Cardinality({k \in 0..(Len(text) - 1) : ~InSpan(text, k)})

\* C30: the result of calculateTwitterLength lies between 0 and the length
\* of the text and is not smaller than the number of characters outside
\* the URL spans, also when "http://" occurs inside an "https://" span.
C30_LengthWithinBounds ==
    Returned("calculateTwitterLength") =>
        /\ 0 <= compose.out
        /\ compose.out <= Len(compose.in.text)
        /\ OutsideSpans(compose.in.text) <= compose.out

(***************************************************************************)
(* The hashtag part of the first-pass text (checked under SpecCompose).    *)
(***************************************************************************)
\* the text after the last blank line of a text
LastParagraph(text) ==
    LET at == LastIndex(text, BlankLine)
    IN  IF at = -1 THEN text ELSE SubSeq(text, at + 3, Len(text))

\* the formatted hashtags of the tags at the given positions that are not
\* empty, in tag order, cut to the first atMost
KeptHashtags(tags, positions, atMost) ==
    LET kept == SelectSeq([i \in positions |-> FormatHashtag(tags[i])], NotEmpty)
    IN  [i \in 1..Min(Len(kept), atMost) |-> <<"#">> \o kept[i]]

\* the first-pass text was returned and ends with these hashtags joined by
\* single spaces, or holds no hashtag when there is none
HashtagPartIs(hashtags) ==
    Returned("buildTwitterPostText")
        /\ calculateTwitterLength(Candidate) <= TwitterLimit
    => IF hashtags = <<>> THEN ~Contains(compose.out, "#")
       ELSE /\ LastParagraph(compose.out) = JoinTexts(hashtags, <<" ">>)
            /\ compose.out # LastParagraph(compose.out) =>
                  ~Contains(SubSeq(compose.out, 1,
                                   LastIndex(compose.out, BlankLine)), "#")

\* C23 (as stated): the hashtag part of the first-pass text is the first 4
\* non-empty formatted hashtags of the tag list, in tag order and without
\* de-duplication, joined by single spaces; it is omitted when there is none.
C23_FirstFourNonEmptyHashtags ==
    HashtagPartIs(KeptHashtags(compose.in.tags, 1..Len(compose.in.tags), 4))

\* C23 (amended): the hashtag part is made of the first 4 tags of the list
\* only: the non-empty formatted hashtags among them, in tag order and
\* without de-duplication; a fifth or later tag is never used.
C23_HashtagsOfFirstFourTags ==
    HashtagPartIs(KeptHashtags(compose.in.tags,
                               1..Min(Len(compose.in.tags), 4), 4))

\* five tags, the second of them formatted to nothing: three hashtags
C23_Witness ==
    /\ Returned("buildTwitterPostText")
    /\ calculateTwitterLength(Candidate) <= TwitterLimit
    /\ compose.build = "lower-casing"
    /\ Len(compose.in.tags) = 5
    /\ compose.in.blogPost.Title # <<>>
    /\ LastParagraph(compose.out) = <<"#","g","o","l","a","n","g"," ","#","w","e","b","d","e","v"," ","#","a","_","b">>

(***************************************************************************)
(* The publishers called on their own (checked under SpecPublish).         *)
(***************************************************************************)
\* the credentials a publisher requires
RequiredKeys(op) ==
    CASE op = "PostToSubstack" -> SubstackKeys
      [] op = "PostToMedium"   -> MediumKeys
      [] op = "PostToTwitter"  -> TwitterKeys
      [] op = "PostToLinkedIn" -> LinkedInKeys

\* the configuration errors: "<KEY> environment variable is required",
\* with the hint some publishers add
ConfigurationErrors ==
    {Errorf(<<key \o " environment variable is required" \o hint>>) :
        key \in AllKeys, hint \in {"", " (connect.sid)", " in .env file"}}

\* a publisher has returned
Published == compose.done /\ compose.op \in Publishers

\* C24: a publisher called with a configuration that lacks one of its
\* required credentials returns a configuration error and has issued no
\* HTTP request, whatever the remote services would have answered.
C24_MissingCredentialNoRequest ==
    Published /\ ~(RequiredKeys(compose.op) \subseteq compose.in.cfg) =>
        /\ compose.out.err \in ConfigurationErrors
        /\ compose.out.requests = 0

\* PostToTwitter called without the access token while the remote would
\* have answered 201
C24_Witness ==
    /\ Published
    /\ compose.op = "PostToTwitter"
    /\ compose.in.cfg \cap TwitterKeys = TwitterKeys \ {"TWITTER_ACCESS_TOKEN"}
    /\ compose.in.resp = Response(StatusCreated)
    /\ compose.out = Outcome(Errorf(<<"TWITTER_ACCESS_TOKEN environment variable is required">>), 0)

\* the statuses a publisher takes for a success
SuccessStatuses(op) ==
    IF op \in {"PostToTwitter", "PostToLinkedIn"} THEN {StatusCreated}
    ELSE {StatusOK, StatusCreated}

\* the publish request of the returned call was answered with a status
PublishAnswered ==
    /\ Published
    /\ RequiredKeys(compose.op) \subseteq compose.in.cfg
    /\ compose.op = "PostToMedium" => getMediumUserID(compose.in.meResp).nil
    /\ ~compose.in.resp.err

\* the error names the status code
CarriesStatus(err, status) ==
    \E i \in 1..Len(err.text) : err.text[i] = ToString(status)

\* the result the status of the publish answer stands for
ResultOfStatus ==
    IF compose.in.resp.StatusCode \in SuccessStatuses(compose.op)
    THEN compose.out.err = Nil
    ELSE /\ ~compose.out.err.nil
         /\ CarriesStatus(compose.out.err, compose.in.resp.StatusCode)

\* C25 (as stated): once the publish request is answered, the result is
\* given by the status alone: nil for a success status, whatever the body,
\* and an error that carries the status code for every other status.
C25_ResultOfStatusAlone == PublishAnswered => ResultOfStatus

\* C25 (amended): when the body of the publish answer could be read, the
\* result is given by the status alone, also for a body that is not JSON;
\* when reading the body fails, the result is a "failed to read" error
\* that carries no status code, for a success status too.
C25_ResultOfStatusOfReadBody ==
    PublishAnswered =>
        IF compose.in.resp.body # "unreadable" THEN ResultOfStatus
        ELSE /\ ~compose.out.err.nil
             /\ ~CarriesStatus(compose.out.err, compose.in.resp.StatusCode)

\* PostToMedium answered 200 with a body that is not JSON: nil
C25_Witness ==
    /\ PublishAnswered
    /\ compose.op = "PostToMedium"
    /\ compose.in.resp = HTTPResponse(StatusOK, "text")
    /\ compose.out = Outcome(Nil, 2)

(***************************************************************************)
(* The process environment under the fan-out (checked under SpecFanOut).   *)
(***************************************************************************)
\* C26 (as stated): a publisher call leaves the process environment, which
\* config.New reads, unchanged.
C26_EnvironmentUnchanged == [][env' = env]_vars

\* the publisher whose return this step records
ReturnedNow == trace'[Len(trace')]

\* C26 (amended): a step changes the process environment only by loading
\* the .env file; what the environment holds once the file is loaded never
\* changes; and a publisher returns a configuration error exactly when that
\* holding lacks one of its credentials, whichever publishers ran before it.
C26_ConfigurationIndependentOfOrder ==
    [][/\ env' \in {env, Load(env, dotenv)}
       /\ Load(env', dotenv') = Load(env, dotenv)
       /\ Len(trace') = Len(trace) + 1 /\ ReturnedNow.ev = "return" =>
              (ReturnedNow.err \in ConfigurationErrors
                 <=> ~(RequiredKeys("PostTo" \o ReturnedNow.p)
                          \subseteq Load(env, dotenv)))]_vars

\* the long-form publisher found its token, which only the file holds, in a
\* call where the newsletter publisher ran before it
C26_Witness ==
    /\ "MEDIUM_INTEGRATION_TOKEN" \in dotenv
    /\ dotenv \subseteq env
    /\ Returns("Substack") # {}
    /\ \E i \in Returns("Medium") : trace[i].err \notin ConfigurationErrors

(***************************************************************************)
(* The long-form payload (checked under SpecCompose).                      *)
(***************************************************************************)
\* C27: the content of the payload buildMediumPayload returns holds at most
\* 2000 characters of the post's content: a content longer than 2000
\* characters is replaced by a prefix of at most 2000 characters followed by
\* "...", a shorter one is sent as it is.
C27_MediumContentCapped ==
    Returned("buildMediumPayload") =>
        LET content == compose.in.blogPost.Content
            sent == compose.out.content
        IN  IF Len(content) <= maxContentLength THEN sent = content
            ELSE \E n \in 0..maxContentLength :
                    sent = SubSeq(content, 1, n) \o Ellipsis

(***************************************************************************)
(* errChannel at the end of main (checked under SpecShutdown).             *)
(***************************************************************************)
\* C28: no goroutine is at its send on errChannel when the channel is
\* closed or after, and no send-on-closed-channel panic happens.
C28_NoSendOnClosedChannel ==
    /\ shutdown.process # "panicked"
    /\ shutdown.errChannel = "closed" =>
          \A sender \in Senders : shutdown[sender] # "send"

(***************************************************************************)
(* Selections with repeated, blank and unknown names (SpecFanOut).         *)
(***************************************************************************)
\* the platforms the selection names, spelt in any case
SelectedPlatforms == {p \in {Platforms[k] : k \in 1..4} : Selected(p)}

\* C29: whatever the selection holds (a name more than once, in several
\* spellings, blank entries, unknown names), each publisher is invoked at
\* most once in a PostEverywhere call, only the publishers of the platforms
\* named are invoked, and every failure entry and every success is that of
\* a platform named, one at most for each.
C29_OncePerPlatform ==
    /\ \A p \in {Platforms[k] : k \in 1..4} :
          /\ Cardinality(Calls(p)) <= 1
          /\ Cardinality(Returns(p)) <= 1
          /\ Cardinality({i \in 1..Len(errors) : errors[i][1] = p})
                + Cardinality({i \in 1..Len(successes) : successes[i] = p}) <= 1
    /\ Called \subseteq SelectedPlatforms
    /\ \A i \in 1..Len(errors) : errors[i][1] \in SelectedPlatforms
    /\ \A i \in 1..Len(successes) : successes[i] \in SelectedPlatforms

\* the mixed list: the microblog publisher ran once and nothing else happened
C29_Witness ==
    /\ pc = "returned"
    /\ args.platformsToPost = MixedSelection
    /\ Cardinality(Calls("Twitter")) = 1
    /\ Len(trace) = 2
    /\ Len(errors) + Len(successes) = 1

=============================================================================
